---- MODULE Spec2Model ----
(***************************************************************************)
(* Model of the MindCare risk-detection core                               *)
(* (src/ia_core/analisis_sentimiento.py): text normalisation, the          *)
(* extreme-risk phrase detector, the lexicon scorer, the sentiment         *)
(* classifier and the risk classifier.                                     *)
(*                                                                         *)
(* A text is a sequence of characters; a character is a one-token string.  *)
(* "a".."z" are the ASCII lower-case letters, "A".."Z" the upper-case      *)
(* ones, a letter followed by "~" (as in "a~") is the precomposed letter   *)
(* with an acute accent (U+00E1 ...), "~" alone is the combining acute     *)
(* accent U+0301 (category Mn), " " is a space, "TAB" and "NL" are the     *)
(* tab and the newline.                                                    *)
(***************************************************************************)
EXTENDS Integers, Sequences, FiniteSets, TLC

VARIABLES
    texto,          \* the raw text handed to the operations
    sia,            \* the module-level VADER analyzer: "ok" or "None"
    pc,             \* position of the caller
    normalizado,    \* result of norm(texto)
    renormalizado,  \* result of norm(norm(texto))
    deteccion,      \* result of contiene_contenido_extremo(norm(texto))
    analisis,       \* result of analizar_nota(texto)
    entrada,        \* the sentiment handed to detectar_nivel_riesgo
    riesgo,         \* result of detectar_nivel_riesgo(texto, entrada)
    llamadas,       \* collaborators consulted by the last operation
    lexico,         \* result of senti_es(norm(texto))
    origen,         \* the catalog phrase texto misspells, if any
    completo,       \* the runs of analisis_completo(texto) so far, in order
    consejo,        \* the last call of generar_recomendacion: level and text
    bd,             \* the SQLite database: reachable or not, its tables
    consola,        \* what the console chat loops have printed
    notificaciones, \* the push notifications handed to the backend
    sesion,         \* the running front end: its user and the messages it analysed
    ollama,         \* what the Ollama server does with a request: fails or answers
    retorno,        \* the last call of the database layer or a handler, and its result
    reloj,          \* the clock, in hours
    procesos,       \* the concurrent calls of registrar_usuario_y_obtener_id
    emitidos        \* the session tokens issued so far: owner, expiry, deleted or not

\* what the sessions and the concurrent registrations add
otros == <<reloj, procesos, emitidos>>

\* what the chat front ends and the pipeline add to the core's state
exterior ==
    <<completo, consejo, bd, consola, notificaciones, sesion, ollama, retorno, otros>>

\* the results of the core's operations
nucleo == <<normalizado, renormalizado, deteccion, analisis, entrada, riesgo, llamadas,
            lexico>>

vars == <<texto, sia, pc, origen, nucleo, exterior>>

\* ------------------------------------------------------------------ bounds
\* longest text, in characters, handed to norm alone
MaxLen == 4
\* longest text, in fragments, handed to the classifiers
MaxFragmentos == 2
\* longest text, in words, handed to the lexicon scorer
MaxTokens == 5
\* characters tried in the misspellings of the phrases outside the typo tier
MaxLetras == 2
\* words of the longest text given to the lexicon scorer alone
MaxPalabras == 6

\* ------------------------------------------------------------- characters
Min(S) == CHOOSE x \in S : \A y \in S : x <= y
Max(S) == CHOOSE x \in S : \A y \in S : x >= y

LowerLetters == {"a", "b", "c", "d", "e", "f", "g", "h", "i", "j", "k", "l",
                 "m", "n", "o", "p", "q", "r", "s", "t", "u", "v", "w", "x",
                 "y", "z"}
UpperLetters == {"A", "M", "Q"}
AccentedLower == {"a~", "e~", "i~", "o~", "u~"}
AccentedUpper == {"A~"}
CombiningMarks == {"~"}
Whitespace == {" ", "TAB", "NL"}

\* str.lower() on one character
LowerChar(c) ==
    CASE c = "A" -> "a"
      [] c = "M" -> "m"
      [] c = "Q" -> "q"
      [] c = "A~" -> "a~"
      [] OTHER -> c

\* unicodedata.normalize('NFD', c) on one character
NFDChar(c) ==
    CASE c = "a~" -> <<"a", "~">>
      [] c = "e~" -> <<"e", "~">>
      [] c = "i~" -> <<"i", "~">>
      [] c = "o~" -> <<"o", "~">>
      [] c = "u~" -> <<"u", "~">>
      [] c = "A~" -> <<"A", "~">>
      [] OTHER -> <<c>>

\* unicodedata.category(c) == 'Mn'
IsMn(c) == c \in CombiningMarks

\* str.isspace(), the class \s of re
IsSpace(c) == c \in Whitespace

\* the class \w of re on str patterns
IsWordChar(c) == c \in LowerLetters \cup UpperLetters \cup AccentedLower \cup AccentedUpper

\* the class [a-z] of re
IsAZ(c) == c \in LowerLetters

\* ----------------------------------------------------------------- norm
Lower(t) == [i \in 1..Len(t) |-> LowerChar(t[i])]

\* str.strip()
Strip(t) ==
    LET keep == {i \in 1..Len(t) : ~IsSpace(t[i])}
    IN  IF keep = {} THEN <<>> ELSE SubSeq(t, Min(keep), Max(keep))

RECURSIVE NFD(_)
NFD(t) == IF t = <<>> THEN <<>> ELSE NFDChar(Head(t)) \o NFD(Tail(t))

\* ''.join(c for c in ... if unicodedata.category(c) != 'Mn')
DropMn(t) == SelectSeq(t, LAMBDA c : ~IsMn(c))

\* length of the run of characters equal to t[i] that starts at i
RECURSIVE RunAt(_, _)
RunAt(t, i) ==
    IF i < Len(t) /\ t[i + 1] = t[i] THEN 1 + RunAt(t, i + 1) ELSE 1

\* re.sub(r'(.)\1{2,}', r'\1', t), from position i: leftmost, greedy; '.' does
\* not match a newline
RECURSIVE CollapseRunsFrom(_, _)
CollapseRunsFrom(t, i) ==
    IF i > Len(t) THEN <<>>
    ELSE LET k == RunAt(t, i)
         IN  IF t[i] # "NL" /\ k >= 3
             THEN <<t[i]>> \o CollapseRunsFrom(t, i + k)
             ELSE <<t[i]>> \o CollapseRunsFrom(t, i + 1)

CollapseRuns(t) == CollapseRunsFrom(t, 1)

\* re.sub(r'\s+', ' ', t), from position i
RECURSIVE CollapseSpacesFrom(_, _)
CollapseSpacesFrom(t, i) ==
    IF i > Len(t) THEN <<>>
    ELSE IF IsSpace(t[i])
         THEN IF i > 1 /\ IsSpace(t[i - 1])
              THEN CollapseSpacesFrom(t, i + 1)
              ELSE <<" ">> \o CollapseSpacesFrom(t, i + 1)
         ELSE <<t[i]>> \o CollapseSpacesFrom(t, i + 1)

CollapseSpaces(t) == CollapseSpacesFrom(t, 1)

norm(t) == CollapseSpaces(CollapseRuns(DropMn(NFD(Strip(Lower(t))))))

\* --------------------------------------------------------------- catalogs
\* LEXICO["pos"]
LEXICO_pos == <<
    \* feliz
    <<"f", "e", "l", "i", "z">>,
    \* alegre
    <<"a", "l", "e", "g", "r", "e">>,
    \* contento
    <<"c", "o", "n", "t", "e", "n", "t", "o">>,
    \* tranquilo
    <<"t", "r", "a", "n", "q", "u", "i", "l", "o">>,
    \* bien
    <<"b", "i", "e", "n">>,
    \* optimista
    <<"o", "p", "t", "i", "m", "i", "s", "t", "a">>,
    \* esperanza
    <<"e", "s", "p", "e", "r", "a", "n", "z", "a">>,
    \* motivado
    <<"m", "o", "t", "i", "v", "a", "d", "o">>,
    \* amor
    <<"a", "m", "o", "r">>,
    \* paz
    <<"p", "a", "z">>,
    \* gratitud
    <<"g", "r", "a", "t", "i", "t", "u", "d">>,
    \* confianza
    <<"c", "o", "n", "f", "i", "a", "n", "z", "a">>,
    \* energia
    <<"e", "n", "e", "r", "g", "i", "a">>,
    \* entusiasmo
    <<"e", "n", "t", "u", "s", "i", "a", "s", "m", "o">>,
    \* satisfecho
    <<"s", "a", "t", "i", "s", "f", "e", "c", "h", "o">>,
    \* orgulloso
    <<"o", "r", "g", "u", "l", "l", "o", "s", "o">>,
    \* genial
    <<"g", "e", "n", "i", "a", "l">>,
    \* excelente
    <<"e", "x", "c", "e", "l", "e", "n", "t", "e">>,
    \* maravilloso
    <<"m", "a", "r", "a", "v", "i", "l", "l", "o", "s", "o">>,
    \* fantastico
    <<"f", "a", "n", "t", "a", "s", "t", "i", "c", "o">>,
    \* increible
    <<"i", "n", "c", "r", "e", "i", "b", "l", "e">>,
    \* mejor
    <<"m", "e", "j", "o", "r">>
    >>

\* LEXICO["neg"]
LEXICO_neg == <<
    \* triste
    <<"t", "r", "i", "s", "t", "e">>,
    \* mal
    <<"m", "a", "l">>,
    \* fatal
    <<"f", "a", "t", "a", "l">>,
    \* horrible
    <<"h", "o", "r", "r", "i", "b", "l", "e">>,
    \* enojado
    <<"e", "n", "o", "j", "a", "d", "o">>,
    \* rabia
    <<"r", "a", "b", "i", "a">>,
    \* derrotado
    <<"d", "e", "r", "r", "o", "t", "a", "d", "o">>,
    \* estresado
    <<"e", "s", "t", "r", "e", "s", "a", "d", "o">>,
    \* ansioso
    <<"a", "n", "s", "i", "o", "s", "o">>,
    \* desesperado
    <<"d", "e", "s", "e", "s", "p", "e", "r", "a", "d", "o">>,
    \* vacio
    <<"v", "a", "c", "i", "o">>,
    \* solo
    <<"s", "o", "l", "o">>,
    \* perdido
    <<"p", "e", "r", "d", "i", "d", "o">>,
    \* agobiado
    <<"a", "g", "o", "b", "i", "a", "d", "o">>,
    \* abrumado
    <<"a", "b", "r", "u", "m", "a", "d", "o">>,
    \* miedo
    <<"m", "i", "e", "d", "o">>,
    \* panico
    <<"p", "a", "n", "i", "c", "o">>,
    \* culpa
    <<"c", "u", "l", "p", "a">>,
    \* verguenza
    <<"v", "e", "r", "g", "u", "e", "n", "z", "a">>,
    \* deprimido
    <<"d", "e", "p", "r", "i", "m", "i", "d", "o">>,
    \* preocupado
    <<"p", "r", "e", "o", "c", "u", "p", "a", "d", "o">>,
    \* frustrado
    <<"f", "r", "u", "s", "t", "r", "a", "d", "o">>,
    \* dolor
    <<"d", "o", "l", "o", "r">>,
    \* sufrimiento
    <<"s", "u", "f", "r", "i", "m", "i", "e", "n", "t", "o">>
    >>

\* LEXICO["neutro"]
LEXICO_neutro == <<
    \* normal
    <<"n", "o", "r", "m", "a", "l">>,
    \* regular
    <<"r", "e", "g", "u", "l", "a", "r">>,
    \* equilibrado
    <<"e", "q", "u", "i", "l", "i", "b", "r", "a", "d", "o">>,
    \* estable
    <<"e", "s", "t", "a", "b", "l", "e">>,
    \* ok
    <<"o", "k">>,
    \* ahi
    <<"a", "h", "i">>,
    \* igual
    <<"i", "g", "u", "a", "l">>,
    \* comun
    <<"c", "o", "m", "u", "n">>,
    \* nada especial
    <<"n", "a", "d", "a", " ", "e", "s", "p", "e", "c", "i", "a", "l">>,
    \* sin mas
    <<"s", "i", "n", " ", "m", "a", "s">>,
    \* neutral
    <<"n", "e", "u", "t", "r", "a", "l">>
    >>

\* keywords that always mean extreme risk
PALABRAS_CRITICAS == <<
    \* suicidio
    <<"s", "u", "i", "c", "i", "d", "i", "o">>,
    \* suicidarme
    <<"s", "u", "i", "c", "i", "d", "a", "r", "m", "e">>,
    \* suicida
    <<"s", "u", "i", "c", "i", "d", "a">>,
    \* matarme
    <<"m", "a", "t", "a", "r", "m", "e">>,
    \* matar me
    <<"m", "a", "t", "a", "r", " ", "m", "e">>
    >>

\* whole phrases of extreme risk
FRASES_EXTREMAS == <<
    \* quitarme la vida
    <<"q", "u", "i", "t", "a", "r", "m", "e", " ", "l", "a", " ", "v", "i",
      "d", "a">>,
    \* quitar me la vida
    <<"q", "u", "i", "t", "a", "r", " ", "m", "e", " ", "l", "a", " ", "v",
      "i", "d", "a">>,
    \* terminar con mi vida
    <<"t", "e", "r", "m", "i", "n", "a", "r", " ", "c", "o", "n", " ", "m",
      "i", " ", "v", "i", "d", "a">>,
    \* terminar con todo
    <<"t", "e", "r", "m", "i", "n", "a", "r", " ", "c", "o", "n", " ", "t",
      "o", "d", "o">>,
    \* acabar con mi vida
    <<"a", "c", "a", "b", "a", "r", " ", "c", "o", "n", " ", "m", "i", " ",
      "v", "i", "d", "a">>,
    \* acabar conmigo
    <<"a", "c", "a", "b", "a", "r", " ", "c", "o", "n", "m", "i", "g", "o">>,
    \* no quiero vivir
    <<"n", "o", " ", "q", "u", "i", "e", "r", "o", " ", "v", "i", "v", "i",
      "r">>,
    \* ya no quiero vivir
    <<"y", "a", " ", "n", "o", " ", "q", "u", "i", "e", "r", "o", " ", "v",
      "i", "v", "i", "r">>,
    \* no quiero vivir mas
    <<"n", "o", " ", "q", "u", "i", "e", "r", "o", " ", "v", "i", "v", "i",
      "r", " ", "m", "a", "s">>,
    \* quiero morir
    <<"q", "u", "i", "e", "r", "o", " ", "m", "o", "r", "i", "r">>,
    \* quiero morirme
    <<"q", "u", "i", "e", "r", "o", " ", "m", "o", "r", "i", "r", "m", "e">>,
    \* planeo morir
    <<"p", "l", "a", "n", "e", "o", " ", "m", "o", "r", "i", "r">>,
    \* voy a morir
    <<"v", "o", "y", " ", "a", " ", "m", "o", "r", "i", "r">>,
    \* no quiero existir
    <<"n", "o", " ", "q", "u", "i", "e", "r", "o", " ", "e", "x", "i", "s",
      "t", "i", "r">>,
    \* ya no quiero existir
    <<"y", "a", " ", "n", "o", " ", "q", "u", "i", "e", "r", "o", " ", "e",
      "x", "i", "s", "t", "i", "r">>,
    \* no quiero estar aqui
    <<"n", "o", " ", "q", "u", "i", "e", "r", "o", " ", "e", "s", "t", "a",
      "r", " ", "a", "q", "u", "i">>,
    \* no quiero estar aca
    <<"n", "o", " ", "q", "u", "i", "e", "r", "o", " ", "e", "s", "t", "a",
      "r", " ", "a", "c", "a">>,
    \* quiero desaparecer
    <<"q", "u", "i", "e", "r", "o", " ", "d", "e", "s", "a", "p", "a", "r",
      "e", "c", "e", "r">>,
    \* quisiera desaparecer
    <<"q", "u", "i", "s", "i", "e", "r", "a", " ", "d", "e", "s", "a", "p",
      "a", "r", "e", "c", "e", "r">>,
    \* ojala no despertara
    <<"o", "j", "a", "l", "a", " ", "n", "o", " ", "d", "e", "s", "p", "e",
      "r", "t", "a", "r", "a">>,
    \* ojala no despertar
    <<"o", "j", "a", "l", "a", " ", "n", "o", " ", "d", "e", "s", "p", "e",
      "r", "t", "a", "r">>,
    \* ojala no despierto
    <<"o", "j", "a", "l", "a", " ", "n", "o", " ", "d", "e", "s", "p", "i",
      "e", "r", "t", "o">>,
    \* ojala no existiera
    <<"o", "j", "a", "l", "a", " ", "n", "o", " ", "e", "x", "i", "s", "t",
      "i", "e", "r", "a">>,
    \* ojala no existir
    <<"o", "j", "a", "l", "a", " ", "n", "o", " ", "e", "x", "i", "s", "t",
      "i", "r">>,
    \* preferiria estar muerto
    <<"p", "r", "e", "f", "e", "r", "i", "r", "i", "a", " ", "e", "s", "t",
      "a", "r", " ", "m", "u", "e", "r", "t", "o">>,
    \* preferiria estar muerta
    <<"p", "r", "e", "f", "e", "r", "i", "r", "i", "a", " ", "e", "s", "t",
      "a", "r", " ", "m", "u", "e", "r", "t", "a">>,
    \* preferiria no vivir
    <<"p", "r", "e", "f", "e", "r", "i", "r", "i", "a", " ", "n", "o", " ",
      "v", "i", "v", "i", "r">>,
    \* prefiero no vivir
    <<"p", "r", "e", "f", "i", "e", "r", "o", " ", "n", "o", " ", "v", "i",
      "v", "i", "r">>,
    \* prefiero estar muerto
    <<"p", "r", "e", "f", "i", "e", "r", "o", " ", "e", "s", "t", "a", "r",
      " ", "m", "u", "e", "r", "t", "o">>,
    \* prefiero estar muerta
    <<"p", "r", "e", "f", "i", "e", "r", "o", " ", "e", "s", "t", "a", "r",
      " ", "m", "u", "e", "r", "t", "a">>,
    \* no quiero seguir viviendo
    <<"n", "o", " ", "q", "u", "i", "e", "r", "o", " ", "s", "e", "g", "u",
      "i", "r", " ", "v", "i", "v", "i", "e", "n", "d", "o">>,
    \* ya no quiero seguir viviendo
    <<"y", "a", " ", "n", "o", " ", "q", "u", "i", "e", "r", "o", " ", "s",
      "e", "g", "u", "i", "r", " ", "v", "i", "v", "i", "e", "n", "d", "o">>,
    \* no puedo seguir viviendo
    <<"n", "o", " ", "p", "u", "e", "d", "o", " ", "s", "e", "g", "u", "i",
      "r", " ", "v", "i", "v", "i", "e", "n", "d", "o">>,
    \* ya no puedo seguir viviendo
    <<"y", "a", " ", "n", "o", " ", "p", "u", "e", "d", "o", " ", "s", "e",
      "g", "u", "i", "r", " ", "v", "i", "v", "i", "e", "n", "d", "o">>,
    \* no quiero esta vida
    <<"n", "o", " ", "q", "u", "i", "e", "r", "o", " ", "e", "s", "t", "a",
      " ", "v", "i", "d", "a">>,
    \* ya no quiero esta vida
    <<"y", "a", " ", "n", "o", " ", "q", "u", "i", "e", "r", "o", " ", "e",
      "s", "t", "a", " ", "v", "i", "d", "a">>,
    \* mi vida no tiene sentido
    <<"m", "i", " ", "v", "i", "d", "a", " ", "n", "o", " ", "t", "i", "e",
      "n", "e", " ", "s", "e", "n", "t", "i", "d", "o">>,
    \* no le veo sentido a mi vida
    <<"n", "o", " ", "l", "e", " ", "v", "e", "o", " ", "s", "e", "n", "t",
      "i", "d", "o", " ", "a", " ", "m", "i", " ", "v", "i", "d", "a">>,
    \* no veo razon para vivir
    <<"n", "o", " ", "v", "e", "o", " ", "r", "a", "z", "o", "n", " ", "p",
      "a", "r", "a", " ", "v", "i", "v", "i", "r">>,
    \* no hay razon para vivir
    <<"n", "o", " ", "h", "a", "y", " ", "r", "a", "z", "o", "n", " ", "p",
      "a", "r", "a", " ", "v", "i", "v", "i", "r">>,
    \* no vale la pena vivir
    <<"n", "o", " ", "v", "a", "l", "e", " ", "l", "a", " ", "p", "e", "n",
      "a", " ", "v", "i", "v", "i", "r">>,
    \* pensando en matarme
    <<"p", "e", "n", "s", "a", "n", "d", "o", " ", "e", "n", " ", "m", "a",
      "t", "a", "r", "m", "e">>,
    \* pienso en matarme
    <<"p", "i", "e", "n", "s", "o", " ", "e", "n", " ", "m", "a", "t", "a",
      "r", "m", "e">>,
    \* estoy listo para morir
    <<"e", "s", "t", "o", "y", " ", "l", "i", "s", "t", "o", " ", "p", "a",
      "r", "a", " ", "m", "o", "r", "i", "r">>,
    \* estoy lista para morir
    <<"e", "s", "t", "o", "y", " ", "l", "i", "s", "t", "a", " ", "p", "a",
      "r", "a", " ", "m", "o", "r", "i", "r">>,
    \* ya tome la decision
    <<"y", "a", " ", "t", "o", "m", "e", " ", "l", "a", " ", "d", "e", "c",
      "i", "s", "i", "o", "n">>,
    \* no puedo mas con mi vida
    <<"n", "o", " ", "p", "u", "e", "d", "o", " ", "m", "a", "s", " ", "c",
      "o", "n", " ", "m", "i", " ", "v", "i", "d", "a">>,
    \* no puedo mas vivir
    <<"n", "o", " ", "p", "u", "e", "d", "o", " ", "m", "a", "s", " ", "v",
      "i", "v", "i", "r">>,
    \* cansado de vivir
    <<"c", "a", "n", "s", "a", "d", "o", " ", "d", "e", " ", "v", "i", "v",
      "i", "r">>,
    \* cansada de vivir
    <<"c", "a", "n", "s", "a", "d", "a", " ", "d", "e", " ", "v", "i", "v",
      "i", "r">>,
    \* ya no deseo vivir
    <<"y", "a", " ", "n", "o", " ", "d", "e", "s", "e", "o", " ", "v", "i",
      "v", "i", "r">>,
    \* no deseo vivir
    <<"n", "o", " ", "d", "e", "s", "e", "o", " ", "v", "i", "v", "i", "r">>,
    \* quiero dejar de existir
    <<"q", "u", "i", "e", "r", "o", " ", "d", "e", "j", "a", "r", " ", "d",
      "e", " ", "e", "x", "i", "s", "t", "i", "r">>,
    \* dejar de existir
    <<"d", "e", "j", "a", "r", " ", "d", "e", " ", "e", "x", "i", "s", "t",
      "i", "r">>,
    \* quiero que todo termine
    <<"q", "u", "i", "e", "r", "o", " ", "q", "u", "e", " ", "t", "o", "d",
      "o", " ", "t", "e", "r", "m", "i", "n", "e">>,
    \* quiero que mi vida termine
    <<"q", "u", "i", "e", "r", "o", " ", "q", "u", "e", " ", "m", "i", " ",
      "v", "i", "d", "a", " ", "t", "e", "r", "m", "i", "n", "e">>,
    \* no quiero seguir asi
    <<"n", "o", " ", "q", "u", "i", "e", "r", "o", " ", "s", "e", "g", "u",
      "i", "r", " ", "a", "s", "i">>,
    \* ya no quiero seguir asi
    <<"y", "a", " ", "n", "o", " ", "q", "u", "i", "e", "r", "o", " ", "s",
      "e", "g", "u", "i", "r", " ", "a", "s", "i">>
    >>

\* the phrases the typo-tolerant tier looks for
frases_criticas_principales == <<
    \* no quiero vivir
    <<"n", "o", " ", "q", "u", "i", "e", "r", "o", " ", "v", "i", "v", "i",
      "r">>,
    \* no quiero vivir mas
    <<"n", "o", " ", "q", "u", "i", "e", "r", "o", " ", "v", "i", "v", "i",
      "r", " ", "m", "a", "s">>,
    \* quiero morir
    <<"q", "u", "i", "e", "r", "o", " ", "m", "o", "r", "i", "r">>,
    \* me quiero matar
    <<"m", "e", " ", "q", "u", "i", "e", "r", "o", " ", "m", "a", "t", "a",
      "r">>,
    \* no quiero existir
    <<"n", "o", " ", "q", "u", "i", "e", "r", "o", " ", "e", "x", "i", "s",
      "t", "i", "r">>,
    \* no quiero estar aqui
    <<"n", "o", " ", "q", "u", "i", "e", "r", "o", " ", "e", "s", "t", "a",
      "r", " ", "a", "q", "u", "i">>,
    \* terminar con mi vida
    <<"t", "e", "r", "m", "i", "n", "a", "r", " ", "c", "o", "n", " ", "m",
      "i", " ", "v", "i", "d", "a">>,
    \* acabar con mi vida
    <<"a", "c", "a", "b", "a", "r", " ", "c", "o", "n", " ", "m", "i", " ",
      "v", "i", "d", "a">>,
    \* quitarme la vida
    <<"q", "u", "i", "t", "a", "r", "m", "e", " ", "l", "a", " ", "v", "i",
      "d", "a">>
    >>

\* the medium-risk phrases, as written in the source (not normalised)
frases_medio_riesgo == <<
    \* no quiero seguir
    <<"n", "o", " ", "q", "u", "i", "e", "r", "o", " ", "s", "e", "g", "u",
      "i", "r">>,
    \* quisiera desaparecer
    <<"q", "u", "i", "s", "i", "e", "r", "a", " ", "d", "e", "s", "a", "p",
      "a", "r", "e", "c", "e", "r">>,
    \* estoy cansado de todo
    <<"e", "s", "t", "o", "y", " ", "c", "a", "n", "s", "a", "d", "o", " ",
      "d", "e", " ", "t", "o", "d", "o">>,
    \* me siento vaci~o
    <<"m", "e", " ", "s", "i", "e", "n", "t", "o", " ", "v", "a", "c", "i~",
      "o">>,
    \* no encuentro sentido
    <<"n", "o", " ", "e", "n", "c", "u", "e", "n", "t", "r", "o", " ", "s",
      "e", "n", "t", "i", "d", "o">>,
    \* estoy agotado
    <<"e", "s", "t", "o", "y", " ", "a", "g", "o", "t", "a", "d", "o">>,
    \* no puedo ma~s
    <<"n", "o", " ", "p", "u", "e", "d", "o", " ", "m", "a~", "s">>,
    \* me siento perdido
    <<"m", "e", " ", "s", "i", "e", "n", "t", "o", " ", "p", "e", "r", "d",
      "i", "d", "o">>,
    \* todo esta~ mal
    <<"t", "o", "d", "o", " ", "e", "s", "t", "a~", " ", "m", "a", "l">>,
    \* no se~ que~ hacer
    <<"n", "o", " ", "s", "e~", " ", "q", "u", "e~", " ", "h", "a", "c", "e",
      "r">>
    >>

\* ------------------------------------------------------ string primitives
\* Python's "p in t" on strings
Contains(t, p) ==
    \/ p = <<>>
    \/ \E i \in 0..(Len(t) - Len(p)) :
           t[i + 1] = p[1] /\ SubSeq(t, i + 1, i + Len(p)) = p

\* str.split(): the maximal runs of non-whitespace characters, in order
RECURSIVE SplitFrom(_, _, _)
SplitFrom(t, i, cur) ==
    IF i > Len(t) THEN (IF cur = <<>> THEN <<>> ELSE <<cur>>)
    ELSE IF IsSpace(t[i])
         THEN (IF cur = <<>> THEN <<>> ELSE <<cur>>) \o SplitFrom(t, i + 1, <<>>)
         ELSE SplitFrom(t, i + 1, Append(cur, t[i]))

Split(t) == SplitFrom(t, 1, <<>>)

\* " ".join(ws)
RECURSIVE Join(_)
Join(ws) ==
    IF ws = <<>> THEN <<>>
    ELSE IF Len(ws) = 1 THEN ws[1]
    ELSE ws[1] \o <<" ">> \o Join(Tail(ws))

\* ------------------------------------------- difflib.SequenceMatcher.ratio
\* length of the common run a[i:] / b[j:] inside a[..ahi), b[..bhi) (0-based)
RECURSIVE CommonRun(_, _, _, _, _, _)
CommonRun(a, b, i, j, ahi, bhi) ==
    IF i < ahi /\ j < bhi /\ a[i + 1] = b[j + 1]
    THEN 1 + CommonRun(a, b, i + 1, j + 1, ahi, bhi)
    ELSE 0

\* SequenceMatcher.find_longest_match(alo, ahi, blo, bhi) without junk: the
\* longest block, of those the one starting earliest in a, of those the one
\* starting earliest in b; <<alo, blo, 0>> when nothing matches.  Only the
\* places where a common run begins are candidates: a run entered in its
\* middle is shorter than the same run taken from its beginning.
FindLongestMatch(a, b, alo, ahi, blo, bhi) ==
    LET blocks == {<<p[1], p[2], CommonRun(a, b, p[1], p[2], ahi, bhi)>> :
                       p \in {q \in (alo..(ahi - 1)) \X (blo..(bhi - 1)) :
                                  /\ a[q[1] + 1] = b[q[2] + 1]
                                  /\ ~(q[1] > alo /\ q[2] > blo /\ a[q[1]] = b[q[2]])}}
    IN  IF blocks = {} THEN <<alo, blo, 0>>
        ELSE CHOOSE x \in blocks :
                 \A y \in blocks :
                     \/ x[3] > y[3]
                     \/ x[3] = y[3] /\ x[1] < y[1]
                     \/ x[3] = y[3] /\ x[1] = y[1] /\ x[2] <= y[2]

\* sum of the sizes of SequenceMatcher.get_matching_blocks()
RECURSIVE MatchingSize(_, _, _, _, _, _)
MatchingSize(a, b, alo, ahi, blo, bhi) ==
    IF alo >= ahi \/ blo >= bhi THEN 0
    ELSE LET m == FindLongestMatch(a, b, alo, ahi, blo, bhi)
         IN  IF m[3] = 0 THEN 0
             ELSE m[3] + MatchingSize(a, b, alo, m[1], blo, m[2])
                       + MatchingSize(a, b, m[1] + m[3], ahi, m[2] + m[3], bhi)

\* mutant: M/T instead of 2*M/T
similitudSinDoble(a, b) ==
    IF Len(a) + Len(b) = 0 THEN <<1, 1>>
    ELSE <<MatchingSize(a, b, 0, Len(a), 0, Len(b)), Len(a) + Len(b)>>

\* similitud(a, b) = SequenceMatcher(None, a, b).ratio() = 2*M/T, kept as the
\* pair <<2*M, T>>; ratio() is 1.0 when both strings are empty
similitud(a, b) ==
    IF Len(a) + Len(b) = 0 THEN <<1, 1>>
    ELSE <<2 * MatchingSize(a, b, 0, Len(a), 0, Len(b)), Len(a) + Len(b)>>

\* the default and the passed value of umbral, in hundredths
Umbral == 85

\* sim >= umbral
AlcanzaUmbral(sim, umbral) == 100 * sim[1] >= umbral * sim[2]

\* f"{sim:.2f}" in hundredths (the only exact tie at or above 0.85 is 0.875,
\* printed 0.88)
Centesimas(sim) == (200 * sim[1] + sim[2]) \div (2 * sim[2])

\* --------------------------------------------------------------- evidence
\* the entries of the list contiene_contenido_extremo returns
EvCritico(p) == [tipo |-> "CRITICO", patron |-> p, sim |-> 0, ventana |-> <<>>]
EvFrase(p) == [tipo |-> "FRASE", patron |-> p, sim |-> 0, ventana |-> <<>>]
EvFuzzyHeader == [tipo |-> "TYPOS", patron |-> <<>>, sim |-> 0, ventana |-> <<>>]
EvFuzzy(p, s, v) == [tipo |-> "FUZZY", patron |-> p, sim |-> s, ventana |-> v]
EvPatron(d) == [tipo |-> "PATRON", patron |-> d, sim |-> 0, ventana |-> <<>>]

\* buscar_con_typos: the windows of one pattern, from window i (0-based) on
RECURSIVE VentanasDe(_, _, _, _)
VentanasDe(palabras_texto, patron, i, umbral) ==
    LET n_patron == Len(Split(patron))
    IN  IF i >= Len(palabras_texto) - n_patron + 1 THEN <<>>
        ELSE LET ventana == Join(SubSeq(palabras_texto, i + 1, i + n_patron))
                 sim == similitud(ventana, patron)
             IN  (IF AlcanzaUmbral(sim, umbral)
                  THEN <<EvFuzzy(patron, Centesimas(sim), ventana)>>
                  ELSE <<>>)
                 \o VentanasDe(palabras_texto, patron, i + 1, umbral)

RECURSIVE BuscarDesde(_, _, _, _)
BuscarDesde(palabras_texto, patrones, k, umbral) ==
    IF k > Len(patrones) THEN <<>>
    ELSE VentanasDe(palabras_texto, patrones[k], 0, umbral)
         \o BuscarDesde(palabras_texto, patrones, k + 1, umbral)

buscar_con_typos(t, patrones, umbral) == BuscarDesde(Split(t), patrones, 1, umbral)

\* ------------------------------------------------------------------ regex
\* A pattern is a sequence of items; an item is a record: "b" is \b, "lit" a
\* literal, "s+" is \s+, "s*" is \s*, "az02" is [a-z]{0,2}, "alt" a group of
\* alternatives (each a pattern; the empty one makes the group optional).
\* Positions are offsets 0..Len(t) between characters.
ReB == [k |-> "b", s |-> <<>>, alts |-> <<>>]
ReS1 == [k |-> "s+", s |-> <<>>, alts |-> <<>>]
ReS0 == [k |-> "s*", s |-> <<>>, alts |-> <<>>]
ReAZ02 == [k |-> "az02", s |-> <<>>, alts |-> <<>>]
ReLit(x) == [k |-> "lit", s |-> x, alts |-> <<>>]
ReAlt(a) == [k |-> "alt", s |-> <<>>, alts |-> a]

\* \b at offset p: exactly one side of p is a \w character
AtWordBoundary(t, p) ==
    (p > 0 /\ IsWordChar(t[p])) # (p < Len(t) /\ IsWordChar(t[p + 1]))

RECURSIVE MatchSeq(_, _, _)
\* the offsets where a match of item can end when it starts at an offset of P
MatchItem(item, t, P) ==
    CASE item.k = "b" -> {p \in P : AtWordBoundary(t, p)}
      [] item.k = "lit" ->
            {p + Len(item.s) : p \in {q \in P : /\ q + Len(item.s) <= Len(t)
                                                /\ SubSeq(t, q + 1, q + Len(item.s)) = item.s}}
      [] item.k = "s+" ->
            UNION {{q \in (p + 1)..Len(t) : \A i \in (p + 1)..q : IsSpace(t[i])} : p \in P}
      [] item.k = "s*" ->
            UNION {{q \in p..Len(t) : \A i \in (p + 1)..q : IsSpace(t[i])} : p \in P}
      [] item.k = "az02" ->
            UNION {{q \in p..Min({p + 2, Len(t)}) : \A i \in (p + 1)..q : IsAZ(t[i])} : p \in P}
      [] item.k = "alt" ->
            UNION {MatchSeq(item.alts[i], t, P) : i \in 1..Len(item.alts)}

MatchSeq(r, t, P) ==
    IF r = <<>> \/ P = {} THEN P
    ELSE MatchSeq(Tail(r), t, MatchItem(Head(r), t, P))

\* re.search(r, t) finds a match
ReSearch(r, t) == MatchSeq(r, t, 0..Len(t)) # {}

\* patrones_criticos: (pattern, descripcion)
patrones_criticos == <<
    \* \bno\s+[a-z]{0,2}quiero\s+vivir
    <<<<ReB, ReLit(<<"n", "o">>), ReS1, ReAZ02, ReLit(<<"q", "u", "i", "e", "r", "o">>), ReS1, ReLit(<<"v", "i", "v", "i", "r">>)>>,
      <<"n", "o", " ", "q", "u", "i", "e", "r", "o", " ", "v", "i", "v", "i", "r">>>>,
    \* \b[a-z]{0,2}quiero\s+morir
    <<<<ReB, ReAZ02, ReLit(<<"q", "u", "i", "e", "r", "o">>), ReS1, ReLit(<<"m", "o", "r", "i", "r">>)>>,
      <<"q", "u", "i", "e", "r", "o", " ", "m", "o", "r", "i", "r">>>>,
    \* \bno\s+[a-z]{0,2}quiero\s+estar\s+(aqui|aca)
    <<<<ReB, ReLit(<<"n", "o">>), ReS1, ReAZ02, ReLit(<<"q", "u", "i", "e", "r", "o">>), ReS1, ReLit(<<"e", "s", "t", "a", "r">>), ReS1,
        ReAlt(<<<<ReLit(<<"a", "q", "u", "i">>)>>, <<ReLit(<<"a", "c", "a">>)>>>>)>>,
      <<"n", "o", " ", "q", "u", "i", "e", "r", "o", " ", "e", "s", "t", "a", "r", " ", "a", "q", "u", "i~">>>>,
    \* \bno\s+[a-z]{0,2}quiero\s+existir
    <<<<ReB, ReLit(<<"n", "o">>), ReS1, ReAZ02, ReLit(<<"q", "u", "i", "e", "r", "o">>), ReS1, ReLit(<<"e", "x", "i", "s", "t", "i", "r">>)>>,
      <<"n", "o", " ", "q", "u", "i", "e", "r", "o", " ", "e", "x", "i", "s", "t", "i", "r">>>>,
    \* \btermin(ar|o)\s+(con\s+)?(mi\s+vida|todo)
    <<<<ReB, ReLit(<<"t", "e", "r", "m", "i", "n">>), ReAlt(<<<<ReLit(<<"a", "r">>)>>, <<ReLit(<<"o">>)>>>>), ReS1,
        ReAlt(<<<<ReLit(<<"c", "o", "n">>), ReS1>>, <<>>>>),
        ReAlt(<<<<ReLit(<<"m", "i">>), ReS1, ReLit(<<"v", "i", "d", "a">>)>>, <<ReLit(<<"t", "o", "d", "o">>)>>>>)>>,
      <<"t", "e", "r", "m", "i", "n", "a", "r", " ", "c", "o", "n", " ", "m", "i", " ", "v", "i", "d", "a">>>>,
    \* \bacab(ar|o)\s+(con\s+)?(mi\s+vida|conmigo)
    <<<<ReB, ReLit(<<"a", "c", "a", "b">>), ReAlt(<<<<ReLit(<<"a", "r">>)>>, <<ReLit(<<"o">>)>>>>), ReS1,
        ReAlt(<<<<ReLit(<<"c", "o", "n">>), ReS1>>, <<>>>>),
        ReAlt(<<<<ReLit(<<"m", "i">>), ReS1, ReLit(<<"v", "i", "d", "a">>)>>, <<ReLit(<<"c", "o", "n", "m", "i", "g", "o">>)>>>>)>>,
      <<"a", "c", "a", "b", "a", "r", " ", "c", "o", "n", " ", "m", "i", " ", "v", "i", "d", "a">>>>,
    \* \b[a-z]{0,2}matar\s*me\b
    <<<<ReB, ReAZ02, ReLit(<<"m", "a", "t", "a", "r">>), ReS0, ReLit(<<"m", "e">>), ReB>>,
      <<"m", "a", "t", "a", "r", "m", "e">>>>,
    \* \bquit(ar|o)\s*me\s+la\s+vida
    <<<<ReB, ReLit(<<"q", "u", "i", "t">>), ReAlt(<<<<ReLit(<<"a", "r">>)>>, <<ReLit(<<"o">>)>>>>), ReS0, ReLit(<<"m", "e">>),
        ReS1, ReLit(<<"l", "a">>), ReS1, ReLit(<<"v", "i", "d", "a">>)>>,
      <<"q", "u", "i", "t", "a", "r", "m", "e", " ", "l", "a", " ", "v", "i", "d", "a">>>>
    >>

\* ------------------------------------------------------- the detector
\* Normalizamos todas las frases
FRASES_EXTREMAS_NORM == [i \in 1..Len(FRASES_EXTREMAS) |-> norm(FRASES_EXTREMAS[i])]
PALABRAS_CRITICAS_NORM == [i \in 1..Len(PALABRAS_CRITICAS) |-> norm(PALABRAS_CRITICAS[i])]

\* step 1: the critical keywords found in the text, in catalog order
CoincidenciasCriticas(t) ==
    LET h == SelectSeq(PALABRAS_CRITICAS_NORM, LAMBDA p : Contains(t, p))
    IN  [i \in 1..Len(h) |-> EvCritico(h[i])]

\* step 2: the extreme phrases found in the text, in catalog order
CoincidenciasFrases(t) ==
    LET h == SelectSeq(FRASES_EXTREMAS_NORM, LAMBDA p : Contains(t, p))
    IN  [i \in 1..Len(h) |-> EvFrase(h[i])]

\* mutant: the typo-tolerant tier runs whatever steps 1 and 2 found
CoincidenciasFuzzySiempre(t, encontradas) ==
    LET coincidencias_fuzzy == buscar_con_typos(t, frases_criticas_principales, Umbral)
    IN  IF coincidencias_fuzzy # <<>>
        THEN <<EvFuzzyHeader>> \o coincidencias_fuzzy
        ELSE <<>>

\* step 3: the typo-tolerant tier, entered when steps 1 and 2 found nothing
CoincidenciasFuzzy(t, encontradas) ==
    IF encontradas = <<>>
    THEN LET coincidencias_fuzzy ==
                 buscar_con_typos(t, frases_criticas_principales, Umbral)
         IN  IF coincidencias_fuzzy # <<>>
             THEN <<EvFuzzyHeader>> \o coincidencias_fuzzy
             ELSE <<>>
    ELSE <<>>

\* step 4: the regex rules that match, in rule order
CoincidenciasPatron(t) ==
    LET h == SelectSeq(patrones_criticos, LAMBDA pd : ReSearch(pd[1], t))
    IN  [i \in 1..Len(h) |-> EvPatron(h[i][2])]

\* mutant: the regex rules report first
contiene_contenido_extremoPatronPrimero(texto_normalizado) ==
    LET exactas == CoincidenciasCriticas(texto_normalizado)
                       \o CoincidenciasFrases(texto_normalizado)
        encontradas == CoincidenciasPatron(texto_normalizado)
                       \o exactas
                       \o CoincidenciasFuzzy(texto_normalizado, exactas)
    IN  <<Len(encontradas) > 0, encontradas>>

\* contiene_contenido_extremo(texto_normalizado) = <<es_extremo, coincidencias>>
contiene_contenido_extremo(texto_normalizado) ==
    LET exactas == CoincidenciasCriticas(texto_normalizado)
                       \o CoincidenciasFrases(texto_normalizado)
        encontradas == exactas
                       \o CoincidenciasFuzzy(texto_normalizado, exactas)
                       \o CoincidenciasPatron(texto_normalizado)
    IN  <<Len(encontradas) > 0, encontradas>>

\* ----------------------------------------------------- the lexicon scorer
\* w in LEXICO[k]
EnLista(w, lista) == \E i \in 1..Len(lista) : lista[i] = w

\* the running sum p of the loop of senti_es over the words from i on
RECURSIVE SumaPolaridad(_, _)
SumaPolaridad(palabras, i) ==
    IF i > Len(palabras) THEN 0
    ELSE (IF EnLista(palabras[i], LEXICO_pos) THEN 1
          ELSE IF EnLista(palabras[i], LEXICO_neg) THEN -1
          ELSE 0)
         + SumaPolaridad(palabras, i + 1)

\* mutant: the neutral words are never noticed
NeutroNuncaDetectado(palabras) == FALSE

\* neutro_detectado after the loop of senti_es
NeutroDetectado(palabras) ==
    \E i \in 1..Len(palabras) :
        /\ ~EnLista(palabras[i], LEXICO_pos)
        /\ ~EnLista(palabras[i], LEXICO_neg)
        /\ EnLista(palabras[i], LEXICO_neutro)

Abs(x) == IF x < 0 THEN -x ELSE x
Sgn(x) == IF x < 0 THEN -1 ELSE IF x > 0 THEN 1 ELSE 0

\* mutant: the quotient is returned without max(-1, min(1, .))
senti_esSinTope(t) ==
    LET palabras == Split(t)
        p == SumaPolaridad(palabras, 1)
        d == Max({15, Len(palabras)})
    IN  IF palabras = <<>> THEN <<0, 1>>
        ELSE IF NeutroDetectado(palabras) /\ Abs(p) <= 1 THEN <<0, 1>>
        ELSE IF p = 0 THEN <<0, 1>>
        ELSE <<3 * p, d>>

\* senti_es(t): the score as the fraction <<numerator, denominator>>.
\* factor = max(5, len(palabras) / 3) is max(15, n) / 3, so p / factor is
\* 3 * p / max(15, n); max(-1, min(1, .)) clamps it.
senti_es(t) ==
    LET palabras == Split(t)
        p == SumaPolaridad(palabras, 1)
        d == Max({15, Len(palabras)})
    IN  IF palabras = <<>> THEN <<0, 1>>
        ELSE IF NeutroDetectado(palabras) /\ Abs(p) <= 1 THEN <<0, 1>>
        ELSE IF p = 0 THEN <<0, 1>>
        ELSE IF 3 * Abs(p) >= d THEN <<Sgn(p), 1>>
        ELSE <<3 * p, d>>

\* ------------------------------------------------ the sentiment classifier
\* A sentiment is the dict analizar_nota returns: claves are the keys present
\* (a caller may hand detectar_nivel_riesgo an incomplete dict).
\* puntuacion_compuesta is in thousandths.
ClavesSentimiento == {"clasificacion", "puntuacion_compuesta", "contenido_extremo"}

Sentimiento(c, punt, ev) ==
    [claves |-> ClavesSentimiento, clasificacion |-> c,
     puntuacion_compuesta |-> punt, contenido_extremo |-> ev]

\* the place of a return value when the call raised instead
SinValor == [claves |-> {}, clasificacion |-> "None", puntuacion_compuesta |-> 0,
             contenido_extremo |-> <<>>]

\* mutant: the test without .strip()
EsVacioSinStrip(txt) == txt = <<>>

\* not texto or not texto.strip()
EsVacio(txt) == txt = <<>> \/ Strip(txt) = <<>>

\* round(x, 3) of x = num / den >= 0, in thousandths; den > 0 (ties to even)
RedondeoMilesimas(num, den) ==
    LET q == (1000 * num) \div den
        r == (1000 * num) % den
    IN  IF 2 * r > den \/ (2 * r = den /\ q % 2 = 1) THEN q + 1 ELSE q

\* The double sum (vader * 0.4) + (lexico * 0.6) of a text of at most 15 words
\* is 0.09999999999999999 (resp. its negative) where the exact sum is 0.1
\* (resp. -0.1) and lexico is 1/5, 3/5 or 4/5 of that sign: vader in
\* ten-thousandths is then 2500 - 3000 * p (resp. -2500 - 3000 * p).
SumaQuedaCorta(lexico_score, vader_score) ==
    /\ lexico_score[2] = 15
    /\ \E p \in {1, 3, 4} :
           \/ lexico_score[1] = 3 * p /\ vader_score = 2500 - 3000 * p
           \/ lexico_score[1] = -3 * p /\ vader_score = 3000 * p - 2500

\* the compound score (vader_score * 0.4) + (lexico_score * 0.6) as
\* <<numerator, denominator>>; vader is in ten-thousandths
Ponderacion(vader_score, lexico_score) ==
    <<4 * vader_score * lexico_score[2] + 60000 * lexico_score[1],
      100000 * lexico_score[2]>>

\* mutant: a score under the thresholds is kept, not forced to 0.0
ClasificarSinForzar(vader_score, lexico_score) ==
    LET punt == Ponderacion(vader_score, lexico_score)
    IN  IF 10 * punt[1] >= punt[2]
        THEN Sentimiento("POSITIVO", RedondeoMilesimas(punt[1], punt[2]), <<>>)
        ELSE IF 10 * punt[1] <= -punt[2]
        THEN Sentimiento("NEGATIVO", -RedondeoMilesimas(-punt[1], punt[2]), <<>>)
        ELSE IF punt[1] >= 0
        THEN Sentimiento("NEUTRO", RedondeoMilesimas(punt[1], punt[2]), <<>>)
        ELSE Sentimiento("NEUTRO", -RedondeoMilesimas(-punt[1], punt[2]), <<>>)

\* lines 248-260: the classification of punt and the rounded score
Clasificar(vader_score, lexico_score) ==
    LET punt == Ponderacion(vader_score, lexico_score)
        corta == SumaQuedaCorta(lexico_score, vader_score)
    IN  IF 10 * punt[1] >= punt[2] /\ ~corta
        THEN Sentimiento("POSITIVO", RedondeoMilesimas(punt[1], punt[2]), <<>>)
        ELSE IF 10 * punt[1] <= -punt[2] /\ ~corta
        THEN Sentimiento("NEGATIVO", -RedondeoMilesimas(-punt[1], punt[2]), <<>>)
        ELSE Sentimiento("NEUTRO", 0, <<>>)

\* mutant: the extreme content does not return early and goes on to the scoring
RetornoTempranoSinExtremo(txt) ==
    IF EsVacio(txt)
    THEN [retorna |-> TRUE, valor |-> Sentimiento("NEUTRO", 0, <<>>), consultas |-> {},
          t |-> <<>>]
    ELSE [retorna |-> FALSE, valor |-> SinValor, consultas |-> {"detector"},
          t |-> norm(txt)]

\* lines 222-238 of analizar_nota: the two early returns (blank text, extreme
\* content); otherwise the normalised text t goes on to the scoring
RetornoTemprano(txt) ==
    IF EsVacio(txt)
    THEN [retorna |-> TRUE, valor |-> Sentimiento("NEUTRO", 0, <<>>), consultas |-> {},
          t |-> <<>>]
    ELSE LET t == norm(txt)
             det == contiene_contenido_extremo(t)
         IN  IF det[1]
             THEN [retorna |-> TRUE, valor |-> Sentimiento("EXTREMO", -1000, det[2]),
                   consultas |-> {"detector"}, t |-> t]
             ELSE [retorna |-> FALSE, valor |-> SinValor, consultas |-> {"detector"},
                   t |-> t]

\* mutant: the scorers are consulted before the early returns are looked at
AnalisisCombinadoPuntuaAntes(previo, analizador, respuesta) ==
    IF analizador # "None" /\ respuesta.raises
    THEN [excepcion |-> TRUE, valor |-> SinValor,
          consultas |-> previo.consultas \cup {"vader"}, vader_score |-> 0]
    ELSE LET vader_score == IF analizador # "None" THEN respuesta.compound ELSE 0
         IN  [excepcion |-> FALSE,
              vader_score |-> vader_score,
              valor |-> IF previo.retorna THEN previo.valor
                        ELSE Clasificar(vader_score, senti_es(previo.t)),
              consultas |-> previo.consultas \cup {"lexico"}
                            \cup (IF analizador # "None" THEN {"vader"} ELSE {})]

\* lines 240-260 of analizar_nota: the combined scoring, with the module's
\* analyzer `analizador` ("ok" or "None") whose polarity_scores answers
\* `respuesta`: it raises, or it returns the compound score respuesta.compound
AnalisisCombinado(previo, analizador, respuesta) ==
    IF previo.retorna
    THEN [excepcion |-> FALSE, valor |-> previo.valor, consultas |-> previo.consultas,
          vader_score |-> 0]
    ELSE IF analizador # "None" /\ respuesta.raises
    THEN [excepcion |-> TRUE, valor |-> SinValor,
          consultas |-> previo.consultas \cup {"vader"}, vader_score |-> 0]
    ELSE LET vader_score == IF analizador # "None" THEN respuesta.compound ELSE 0
         IN  [excepcion |-> FALSE,
              vader_score |-> vader_score,
              valor |-> Clasificar(vader_score, senti_es(previo.t)),
              consultas |-> previo.consultas \cup {"lexico"}
                            \cup (IF analizador # "None" THEN {"vader"} ELSE {})]

\* analizar_nota(txt): whether the call raised, the dict returned, the
\* collaborators consulted and the external score used (0 when none was)
analizar_nota(txt, analizador, respuesta) ==
    AnalisisCombinado(RetornoTemprano(txt), analizador, respuesta)

\* ----------------------------------------------------- the risk classifier
EvNinguna == [tipo |-> "", patron |-> <<>>, sim |-> 0, ventana |-> <<>>]

\* the entries of motivos: a header line, an evidence line or a phrase line
MotivoEncabezado(e) == [encabezado |-> e, coincidencia |-> EvNinguna, frase |-> <<>>]
MotivoCoincidencia(c) == [encabezado |-> "", coincidencia |-> c, frase |-> <<>>]
MotivoFrase(f) == [encabezado |-> "", coincidencia |-> EvNinguna, frase |-> f]

\* analisis.get("clasificacion")
GetClasificacion(a) == IF "clasificacion" \in a.claves THEN a.clasificacion ELSE "None"

\* analisis.get("contenido_extremo"), an absent key read as the empty list
GetContenidoExtremo(a) ==
    IF "contenido_extremo" \in a.claves THEN a.contenido_extremo ELSE <<>>

\* mutant: every entry of the list is reported
PrimerasTresYMas(lista) ==
    [i \in 1..Len(lista) |-> MotivoCoincidencia(lista[i])]

\* [f"  -> {c}" for c in lista[:3]]
PrimerasTres(lista) ==
    [i \in 1..Min({3, Len(lista)}) |-> MotivoCoincidencia(lista[i])]

\* the first medium-risk phrase (as written in the source) found in t, or 0
PrimeraFraseMedio(t) ==
    LET h == {i \in 1..Len(frases_medio_riesgo) : Contains(t, frases_medio_riesgo[i])}
    IN  IF h = {} THEN 0 ELSE Min(h)

\* mutant: no second look at the text
SinDobleVerificacion(t) == <<FALSE, <<>>>>

\* line 295: the double check, the detector run on the text itself
DobleVerificacion(t) == contiene_contenido_extremo(t)

\* mutant: the medium tier answers with the severity of the high tier
RiesgoMedioValorAlto(k) ==
    [nivel |-> "MEDIO",
     motivos |-> <<MotivoEncabezado("FRASES DE RIESGO MEDIO DETECTADAS"),
                   MotivoFrase(frases_medio_riesgo[k])>>,
     valor |-> 3, consultas |-> {"detector"}]

\* lines 313-316: the answer of the medium tier for the k-th phrase
RiesgoMedio(k) ==
    [nivel |-> "MEDIO",
     motivos |-> <<MotivoEncabezado("FRASES DE RIESGO MEDIO DETECTADAS"),
                   MotivoFrase(frases_medio_riesgo[k])>>,
     valor |-> 2, consultas |-> {"detector"}]

\* detectar_nivel_riesgo(txt, a): nivel, motivos, valor, and the
\* collaborators consulted
detectar_nivel_riesgo(txt, a) ==
    IF EsVacio(txt)
    THEN [nivel |-> "BAJO", motivos |-> <<>>, valor |-> 1, consultas |-> {}]
    ELSE IF GetClasificacion(a) = "EXTREMO"
    THEN [nivel |-> "ALTO",
          motivos |-> <<MotivoEncabezado("IDEACION SUICIDA DETECTADA")>>
                      \o PrimerasTres(GetContenidoExtremo(a)),
          valor |-> 3, consultas |-> {}]
    ELSE LET t == norm(txt)
             det == DobleVerificacion(t)
             k == PrimeraFraseMedio(t)
         IN  IF det[1]
             THEN [nivel |-> "ALTO",
                   motivos |-> <<MotivoEncabezado("CONTENIDO DE ALTO RIESGO")>>
                               \o PrimerasTres(det[2]),
                   valor |-> 3, consultas |-> {"detector"}]
             ELSE IF k # 0
             THEN RiesgoMedio(k)
             ELSE [nivel |-> "BAJO",
                   motivos |-> <<MotivoEncabezado("Sin indicadores de riesgo significativos detectados.")>>,
                   valor |-> 1, consultas |-> {"detector"}]

\* ------------------------------------------------------ the recommendation
\* mutant: the table has no entry for BAJO
generar_recomendacionSinBajo(nivel_riesgo) ==
    IF nivel_riesgo = "ALTO"
    THEN <<"ACCION INMEDIATA REQUERIDA:",
           "- Contactar linea de prevencion del suicidio: [Numero local]">>
    ELSE IF nivel_riesgo = "MEDIO"
    THEN <<"ATENCION RECOMENDADA:">>
    ELSE <<>>

\* generar_recomendacion(nivel_riesgo): the text as its lines (accents and
\* pictographs left out); <<>> is the empty string
generar_recomendacion(nivel_riesgo) ==
    IF nivel_riesgo = "ALTO"
    THEN <<"ACCION INMEDIATA REQUERIDA:",
           "- Contactar linea de prevencion del suicidio: [Numero local]",
           "- No dejar a la persona sola",
           "- Buscar atencion profesional de emergencia",
           "- Eliminar medios de autolesion del entorno">>
    ELSE IF nivel_riesgo = "MEDIO"
    THEN <<"ATENCION RECOMENDADA:",
           "- Sugerir apoyo profesional (psicologo/psiquiatra)",
           "- Mantener comunicacion cercana",
           "- Validar sentimientos y ofrecer escucha activa",
           "- Recursos de apoyo disponibles 24/7">>
    ELSE IF nivel_riesgo = "BAJO"
    THEN <<"SEGUIMIENTO NORMAL:",
           "- Continuar con apoyo empatico",
           "- Monitorear cambios en el estado emocional",
           "- Recordar recursos de apoyo disponibles">>
    ELSE <<>>

\* ------------------------------------------------------------ the pipeline
\* the place of the dict of analisis_completo when the call raised instead
SinResultado ==
    [texto_original |-> <<>>, texto_normalizado |-> <<>>,
     sentimiento |-> [clasificacion |-> "None", puntuacion |-> 0,
                      contenido_extremo |-> <<>>],
     riesgo |-> [nivel |-> "None", motivos |-> <<>>, valor |-> 0,
                 recomendacion |-> <<>>]]

\* lines 366-383 of analisis_completo, after analizar_nota returned `a` and
\* detectar_nivel_riesgo returned `r`
ResultadoCompleto(txt, a, r) ==
    [texto_original |-> txt,
     texto_normalizado |-> norm(txt),
     sentimiento |-> [clasificacion |-> a.clasificacion,
                      puntuacion |-> a.puntuacion_compuesta,
                      contenido_extremo |-> GetContenidoExtremo(a)],
     riesgo |-> [nivel |-> r.nivel, motivos |-> r.motivos, valor |-> r.valor,
                 recomendacion |-> generar_recomendacion(r.nivel)]]

\* mutant: the risk step is not handed the sentiment
CompletoDeSinSentimiento(txt, an) ==
    IF an.excepcion
    THEN [excepcion |-> TRUE, valor |-> SinResultado]
    ELSE [excepcion |-> FALSE,
          valor |-> ResultadoCompleto(txt, an.valor,
                                      detectar_nivel_riesgo(txt, SinValor))]

\* analisis_completo once analizar_nota has raised or returned
CompletoDe(txt, an) ==
    IF an.excepcion
    THEN [excepcion |-> TRUE, valor |-> SinResultado]
    ELSE [excepcion |-> FALSE,
          valor |-> ResultadoCompleto(txt, an.valor,
                                      detectar_nivel_riesgo(txt, an.valor))]

\* analisis_completo(txt): whether the call raised (the analyzer did) and the
\* dict returned
analisis_completo(txt, analizador, respuesta) ==
    CompletoDe(txt, analizar_nota(txt, analizador, respuesta))

\* ------------------------------------------------------------ the database
\* the row id of user_uuid in the table usuarios, 0 when it has none
BuscarUsuario(base, user_uuid) ==
    IF \E k \in 1..Len(base.usuarios) : base.usuarios[k] = user_uuid
    THEN CHOOSE k \in 1..Len(base.usuarios) : base.usuarios[k] = user_uuid
    ELSE 0

\* registrar_usuario_y_obtener_id(user_uuid): the database after the call and
\* the id returned, -1 with no connection (the access dates are left out)
registrar_usuario_y_obtener_id(base, user_uuid) ==
    IF ~base.disponible THEN [bd |-> base, id |-> -1]
    ELSE IF BuscarUsuario(base, user_uuid) # 0
    THEN [bd |-> base, id |-> BuscarUsuario(base, user_uuid)]
    ELSE [bd |-> [base EXCEPT !.usuarios = Append(@, user_uuid)],
          id |-> Len(base.usuarios) + 1]

\* A Python value where its type matters: a str or a tuple
PyStr(x) == [tipo |-> "str", v |-> x]
PyTuple(x) == [tipo |-> "tuple", v |-> x]

\* a == b of Python: values of different types are not equal
PyEq(a, b) == a.tipo = b.tipo /\ a.v = b.v

\* a in lista
PyIn(a, lista) == \E i \in 1..Len(lista) : PyEq(a, lista[i])

\* analisis.get("clasificacion", "NEUTRO")
ClasificacionParaAlerta(a) ==
    IF "clasificacion" \in a.claves THEN a.clasificacion ELSE "NEUTRO"

\* float(analisis.get("puntuacion_compuesta", analisis.get("puntuacion", 0.0) or 0.0))
PuntuacionParaAlerta(a) ==
    IF "puntuacion_compuesta" \in a.claves THEN a.puntuacion_compuesta
    ELSE IF "puntuacion" \in a.claves THEN a.puntuacion
    ELSE 0

\* the column valor: the argument, else analisis.get("valor"), else NULL;
\* <<>> is None / NULL and <<x>> the number x
ValorParaAlerta(a, valor) ==
    IF valor # <<>> THEN valor
    ELSE IF "valor" \in a.claves THEN a.valor
    ELSE <<>>

\* mutant: only MEDIO and ALTO are stored
registrar_alertaSoloRiesgo(base, usuario_id, mensaje, a, riesgo_py, valor) ==
    IF ~base.disponible \/ ~PyIn(riesgo_py, <<PyStr("MEDIO"), PyStr("ALTO")>>)
    THEN [excepcion |-> FALSE, bd |-> base]
    ELSE [excepcion |-> FALSE,
          bd |-> [base EXCEPT !.alertas = Append(@,
                     [usuario_id |-> usuario_id, mensaje |-> mensaje,
                      clasificacion |-> ClasificacionParaAlerta(a),
                      riesgo |-> riesgo_py.v,
                      puntuacion |-> PuntuacionParaAlerta(a),
                      valor |-> ValorParaAlerta(a, valor)])]]

\* registrar_alerta(usuario_id, mensaje, analisis, riesgo, valor): with no
\* connection nothing happens; sqlite3 raises on a riesgo that is no str and on
\* a usuario_id that is no row of usuarios (foreign keys are on); otherwise
\* one row is inserted (its date is left out)
registrar_alerta(base, usuario_id, mensaje, a, riesgo_py, valor) ==
    IF ~base.disponible THEN [excepcion |-> FALSE, bd |-> base]
    ELSE IF riesgo_py.tipo # "str" \/ usuario_id \notin 1..Len(base.usuarios)
    THEN [excepcion |-> TRUE, bd |-> base]
    ELSE [excepcion |-> FALSE,
          bd |-> [base EXCEPT !.alertas = Append(@,
                     [usuario_id |-> usuario_id, mensaje |-> mensaje,
                      clasificacion |-> ClasificacionParaAlerta(a),
                      riesgo |-> riesgo_py.v,
                      puntuacion |-> PuntuacionParaAlerta(a),
                      valor |-> ValorParaAlerta(a, valor)])]]

\* actualizar_ultima_notificacion(usuario_id)
actualizar_ultima_notificacion(base, usuario_id) ==
    IF ~base.disponible THEN base
    ELSE [base EXCEPT !.notificados = @ \cup ({usuario_id} \cap (1..Len(base.usuarios)))]

\* procesar_analisis(mensaje), from the dict analisis_completo returned
procesar_analisis(resultado) ==
    [claves |-> {"clasificacion", "puntuacion_compuesta", "puntuacion", "riesgo",
                 "valor", "motivos", "contenido_extremo"},
     clasificacion |-> resultado.sentimiento.clasificacion,
     puntuacion_compuesta |-> resultado.sentimiento.puntuacion,
     puntuacion |-> resultado.sentimiento.puntuacion,
     riesgo |-> resultado.riesgo.nivel,
     valor |-> <<resultado.riesgo.valor>>,
     motivos |-> resultado.riesgo.motivos,
     contenido_extremo |-> resultado.sentimiento.contenido_extremo]

\* guardar_mensaje(usuario_id, sender, mensaje, analisis): one row of the
\* table mensajes (the analysis as JSON is left out); fecha is the place of the
\* row in the order of the dates, which grow from one insert to the next
guardar_mensaje(base, usuario_id, sender, contenido) ==
    IF ~base.disponible THEN [excepcion |-> FALSE, bd |-> base]
    ELSE IF usuario_id \notin 1..Len(base.usuarios)
    THEN [excepcion |-> TRUE, bd |-> base]
    ELSE [excepcion |-> FALSE,
          bd |-> [base EXCEPT !.mensajes = Append(@,
                     [usuario_id |-> usuario_id, sender |-> sender,
                      mensaje |-> contenido, fecha |-> Len(base.mensajes) + 1])]]

\* obtener_usuario_id_por_userid_exacto over the list source_user_ids: the ids
\* of the sources that are rows of usuarios, in the order of the list
RECURSIVE Resueltos(_, _)
Resueltos(base, sources) ==
    IF sources = <<>> THEN <<>>
    ELSE IF BuscarUsuario(base, Head(sources)) = 0 THEN Resueltos(base, Tail(sources))
    ELSE <<BuscarUsuario(base, Head(sources))>> \o Resueltos(base, Tail(sources))

\* obtener_mensajes_por_usuario_ids(usuario_ids, limit), by its length: the rows
\* whose usuario_id is IN the list, at most `limit` of them
CuentaDeMensajes(base, usuario_ids, limit) ==
    Min({limit, Cardinality({k \in 1..Len(base.mensajes) :
                                \E j \in 1..Len(usuario_ids) :
                                    base.mensajes[k].usuario_id = usuario_ids[j]})})

\* transferir_mensajes(from_usuario_ids, to_usuario_id): one UPDATE per source
\* id, in the order of the list; the rowcounts add up
RECURSIVE transferir_mensajes(_, _, _)
transferir_mensajes(base, from_usuario_ids, to_usuario_id) ==
    IF from_usuario_ids = <<>> \/ ~base.disponible THEN [bd |-> base, total |-> 0]
    ELSE LET fid == Head(from_usuario_ids)
             una == [base EXCEPT !.mensajes =
                        [k \in 1..Len(@) |->
                            IF @[k].usuario_id = fid
                            THEN [@[k] EXCEPT !.usuario_id = to_usuario_id]
                            ELSE @[k]]]
             resto == transferir_mensajes(una, Tail(from_usuario_ids), to_usuario_id)
         IN  [bd |-> resto.bd,
              total |-> resto.total
                        + Cardinality({k \in 1..Len(base.mensajes) :
                                          base.mensajes[k].usuario_id = fid})]

\* data.get('dry_run', True) of a payload whose field is left out or holds a
\* JSON value ("None" is null), and bool() of a value
dry_run_de(campo) == IF campo = "omitido" THEN "True" ELSE campo
Veraz(v) == v \notin {"False", "None", "0", "''"}

\* the body of an answer of /api/claim that is an error
ErrorDeClaim == [messages_to_move |-> -1, dry_run |-> FALSE, moved |-> -1]

\* api_claim on the payload {target_user_id, source_user_ids, dry_run}: the
\* status, the body and the database after the request
api_claim(base, target, sources, campo) ==
    IF target = <<>> \/ sources = <<>>
    THEN [status |-> 400, bd |-> base, cuerpo |-> ErrorDeClaim]
    ELSE LET reg == registrar_usuario_y_obtener_id(base, target)
             resolved == Resueltos(reg.bd, sources)
             count == CuentaDeMensajes(reg.bd, resolved, 1000000)
             mov == transferir_mensajes(reg.bd, resolved, reg.id)
         IN  IF reg.id = -1 THEN [status |-> 500, bd |-> base, cuerpo |-> ErrorDeClaim]
             ELSE IF resolved = <<>>
             THEN [status |-> 404, bd |-> reg.bd, cuerpo |-> ErrorDeClaim]
             ELSE IF Veraz(dry_run_de(campo))
             THEN [status |-> 200, bd |-> reg.bd,
                   cuerpo |-> [messages_to_move |-> count, dry_run |-> TRUE,
                               moved |-> -1]]
             ELSE [status |-> 200, bd |-> mov.bd,
                   cuerpo |-> [messages_to_move |-> count, dry_run |-> FALSE,
                               moved |-> mov.total]]

\* create_session(usuario_id, hours_valid) at the hour ahora, uuid4 giving
\* the token: '' (here 0) with no connection; sqlite3 raises on a usuario_id
\* that is no row of usuarios; otherwise the row is inserted and the token
\* returned
create_session(base, usuario_id, hours_valid, token, ahora) ==
    IF ~base.disponible THEN [excepcion |-> FALSE, valor |-> 0, bd |-> base]
    ELSE IF usuario_id \notin 1..Len(base.usuarios)
    THEN [excepcion |-> TRUE, valor |-> 0, bd |-> base]
    ELSE [excepcion |-> FALSE, valor |-> token,
          bd |-> [base EXCEPT !.sessions = Append(@,
                     [usuario_id |-> usuario_id, token |-> token,
                      expiry |-> ahora + hours_valid])]]

\* DELETE FROM sessions WHERE token = ?
SinToken(base, token) ==
    [base EXCEPT !.sessions = SelectSeq(@, LAMBDA f : f.token # token)]

\* mutant: a session is over from the hour of its expiry on
validate_sessionDesdeExpiry(base, token, ahora) ==
    IF ~base.disponible \/ \A k \in 1..Len(base.sessions) : base.sessions[k].token # token
    THEN [valor |-> -1, bd |-> base]
    ELSE IF ahora >= (CHOOSE f \in {base.sessions[k] : k \in 1..Len(base.sessions)} :
                          f.token = token).expiry
    THEN [valor |-> -1, bd |-> SinToken(base, token)]
    ELSE [valor |-> (CHOOSE f \in {base.sessions[k] : k \in 1..Len(base.sessions)} :
                         f.token = token).usuario_id,
          bd |-> base]

\* validate_session(token) at the hour ahora: the usuario_id of the row, or -1
\* with no connection, with no row, and past the expiry (the row is deleted)
validate_session(base, token, ahora) ==
    IF ~base.disponible \/ \A k \in 1..Len(base.sessions) : base.sessions[k].token # token
    THEN [valor |-> -1, bd |-> base]
    ELSE IF ahora > (CHOOSE f \in {base.sessions[k] : k \in 1..Len(base.sessions)} :
                         f.token = token).expiry
    THEN [valor |-> -1, bd |-> SinToken(base, token)]
    ELSE [valor |-> (CHOOSE f \in {base.sessions[k] : k \in 1..Len(base.sessions)} :
                         f.token = token).usuario_id,
          bd |-> base]

\* delete_session(token)
delete_session(base, token) ==
    IF ~base.disponible THEN [valor |-> FALSE, bd |-> base]
    ELSE [valor |-> TRUE, bd |-> SinToken(base, token)]

\* the rows of t in the order of ORDER BY fecha ASC
PorFecha(t) ==
    LET RECURSIVE Ordenar(_, _)
        Ordenar(pendientes, hecho) ==
            IF pendientes = {} THEN hecho
            ELSE LET i == CHOOSE j \in pendientes :
                              \A k \in pendientes : t[j].fecha <= t[k].fecha
                 IN  Ordenar(pendientes \ {i}, Append(hecho, t[i]))
    IN  Ordenar(1..Len(t), <<>>)

\* obtener_mensajes(usuario_id, limit): SELECT ... WHERE usuario_id = ? ORDER
\* BY fecha ASC LIMIT ?, the rows as dicts; a negative LIMIT is no limit
obtener_mensajes(base, usuario_id, limit) ==
    IF ~base.disponible THEN <<>>
    ELSE LET filas == PorFecha(SelectSeq(base.mensajes,
                                         LAMBDA f : f.usuario_id = usuario_id))
             n == IF limit < 0 \/ limit > Len(filas) THEN Len(filas) ELSE limit
         IN  [i \in 1..n |->
                 [sender |-> filas[i].sender, mensaje |-> filas[i].mensaje,
                  fecha |-> filas[i].fecha]]

\* the Ollama server: a request to it fails (no connection, a timeout, an HTTP
\* error status: each a requests.RequestException) or is answered with a JSON
\* body whose field "response" is a text
Ollama(fallo, response) == [fallo |-> fallo, response |-> response]
OllamaCaido == Ollama("conexion", <<>>)

\* s.replace("*", "")
SinAsteriscos(t) == SelectSeq(t, LAMBDA c : c # "*")

\* mutant: the fallback table has no default for an unknown level
generar_respuesta_fallbackSinDefecto(nivel, username) ==
    IF nivel = "ALTO"
    THEN username \o <<", lo que sientes es importante. Considera hablar con un profesional.">>
    ELSE IF nivel = "MEDIO" THEN <<"Estoy aqui para escucharte, ">> \o username \o <<".">>
    ELSE IF nivel = "BAJO" THEN <<"Aqui estoy contigo, ">> \o username \o <<".">>
    ELSE <<>>

\* generar_respuesta_fallback(riesgo, username): the text, the literal parts of
\* the f-strings one token each (accents left out), the name as its characters
generar_respuesta_fallback(nivel, username) ==
    IF nivel = "ALTO"
    THEN username \o <<", lo que sientes es importante. Considera hablar con un profesional.">>
    ELSE IF nivel = "MEDIO" THEN <<"Estoy aqui para escucharte, ">> \o username \o <<".">>
    ELSE <<"Aqui estoy contigo, ">> \o username \o <<".">>

\* generar_respuesta_con_ia(mensaje, clasificacion, riesgo, username): the
\* text of the model without asterisks and stripped, or the fallback of the
\* level when the request fails or that text is empty
generar_respuesta_con_ia(nivel, username, servicio) ==
    IF servicio.fallo # "None"
    THEN [origen |-> "fallback", texto |-> generar_respuesta_fallback(nivel, username)]
    ELSE IF Strip(SinAsteriscos(servicio.response)) # <<>>
    THEN [origen |-> "ia", texto |-> Strip(SinAsteriscos(servicio.response))]
    ELSE [origen |-> "fallback", texto |-> generar_respuesta_fallback(nivel, username)]

\* mutant: the mark of the last notification is set whatever the send did
NotificarAltoMarcaSiempre(base, notifs, user_id, username, envio) ==
    [bd |-> actualizar_ultima_notificacion(
                registrar_usuario_y_obtener_id(base, user_id).bd,
                registrar_usuario_y_obtener_id(base, user_id).id),
     notificaciones |-> Append(notifs,
         [titulo |-> "MindCare Alerta",
          cuerpo |-> <<"Alerta: se detecto riesgo ", "ALTO", " en el usuario ",
                       IF username # <<>> THEN username ELSE user_id, ".">>,
          envio |-> envio, filas |-> Len(base.alertas)])]

\* the push of an ALTO alert (lines 235-251): title and body as
\* send_notification hands them to the backend (the body names the user and
\* the level), what send_notification did, and how many rows the table alertas
\* held when the push was attempted
\* mutant: the text of the push also carries the number of the alert row
NotificarAltoConFila(base, notifs, user_id, username, envio) ==
    LET reg == registrar_usuario_y_obtener_id(base, user_id)
        nombre == IF username # <<>> THEN username ELSE user_id
        n == [titulo |-> "MindCare Alerta",
              cuerpo |-> <<"Alerta: se detecto riesgo ", "ALTO", " en el usuario ",
                           nombre, ".", " alerta ",
                           Len(base.alertas)>>,
              envio |-> envio, filas |-> Len(base.alertas),
              user_id |-> user_id, username |-> username]
    IN  [bd |-> IF envio = "enviada"
                THEN actualizar_ultima_notificacion(reg.bd, reg.id)
                ELSE reg.bd,
         notificaciones |-> Append(notifs, n)]

\* the push of an ALTO message: title, text, outcome of the send, the rows of
\* alertas at that moment, and the user_id and username of the request
NotificarAlto(base, notifs, user_id, username, envio) ==
    LET reg == registrar_usuario_y_obtener_id(base, user_id)
        nombre == IF username # <<>> THEN username ELSE user_id
        n == [titulo |-> "MindCare Alerta",
              cuerpo |-> <<"Alerta: se detecto riesgo ", "ALTO", " en el usuario ",
                           nombre, ".">>,
              envio |-> envio, filas |-> Len(base.alertas),
              user_id |-> user_id, username |-> username]
    IN  [bd |-> IF envio = "enviada"
                THEN actualizar_ultima_notificacion(reg.bd, reg.id)
                ELSE reg.bd,
         notificaciones |-> Append(notifs, n)]

\* registrar_alerta_si_corresponde(user_id, mensaje, analisis, username)
registrar_alerta_si_corresponde(base, notifs, user_id, mensaje, a, username, envio) ==
    LET reg == registrar_usuario_y_obtener_id(base, user_id)
        alerta == registrar_alerta(reg.bd, reg.id, mensaje, a, PyStr(a.riesgo), a.valor)
    IN  IF alerta.excepcion
        THEN [excepcion |-> TRUE, bd |-> alerta.bd, notificaciones |-> notifs]
        ELSE IF a.riesgo = "ALTO"
        THEN [excepcion |-> FALSE,
              bd |-> NotificarAlto(alerta.bd, notifs, user_id, username, envio).bd,
              notificaciones |->
                  NotificarAlto(alerta.bd, notifs, user_id, username, envio).notificaciones]
        ELSE [excepcion |-> FALSE, bd |-> alerta.bd, notificaciones |-> notifs]

\* ----------------------------------------------------------- the consoles
\* a block printed on the console
Linea(tipo) ==
    [tipo |-> tipo, clasificacion |-> "", puntuacion |-> 0, riesgo |-> PyStr(""),
     alerta |-> ""]

\* the block chat_psicologo prints after an analysis (lines 64-67)
LineaPsicologo(a, riesgo_py) ==
    [tipo |-> "analisis", clasificacion |-> a.clasificacion,
     puntuacion |-> a.puntuacion_compuesta, riesgo |-> riesgo_py, alerta |-> ""]

\* test_consola, lines 74-79: the message chosen from riesgo
MensajeDeAlerta(riesgo_py) ==
    IF PyEq(riesgo_py, PyStr("ALTO")) THEN "ALERTA DE RIESGO ALTO. BUSCA AYUDA INMEDIATA."
    ELSE IF PyEq(riesgo_py, PyStr("MEDIO"))
    THEN "Riesgo Medio detectado. Se sugiere buscar apoyo."
    ELSE "Riesgo Bajo. Estado emocional evaluado."

\* the block test_consola prints after an analysis (lines 82-85)
LineaConsola(a, riesgo_py) ==
    [tipo |-> "analisis", clasificacion |-> a.clasificacion,
     puntuacion |-> a.puntuacion_compuesta, riesgo |-> riesgo_py,
     alerta |-> MensajeDeAlerta(riesgo_py)]

\* texto_usuario.lower() in ["salir", "exit"]
EsSalida(m) == Lower(m) \in {<<"s", "a", "l", "i", "r">>, <<"e", "x", "i", "t">>}

\* the tuple detectar_nivel_riesgo returns
TuplaRiesgo(rg) == PyTuple([nivel |-> rg.nivel, motivos |-> rg.motivos, valor |-> rg.valor])

\* what a front end keeps of a message it analysed; alerta_excepcion is
\* whether registrar_alerta_si_corresponde raised on it
Recibido(m, clasificacion, nivel, valor, respuesta, excepcion) ==
    [mensaje |-> m, clasificacion |-> clasificacion, nivel |-> nivel, valor |-> valor,
     respuesta |-> respuesta, alerta_excepcion |-> excepcion]

\* no answer generated (the consoles generate none)
SinRespuesta == [origen |-> "None", texto |-> <<>>]

\* ================================================================ inputs
\* all sequences over S of length at most n
SeqsUpTo(S, n) == UNION {[1..k -> S] : k \in 0..n}

\* the fragments the texts of Spec are made of
Fragmentos == {<<"q", "u", "i", "e", "r", "o">>, <<"m", "o", "r", "i", "r">>, <<"q", "u", "i", "e", "o", "r">>, <<"M", "a", "t", "a", "r", "m", "e">>, <<"t", "e", "r", "m", "i", "n", "o", " ", "t", "o", "d", "o">>,
               <<"e", "s", "t", "o", "y", " ", "a", "g", "o", "t", "a", "d", "o">>, <<"n", "o", " ", "p", "u", "e", "d", "o">>, <<"m", "a", "s">>, <<"t", "r", "i", "s", "t", "e">>,
               <<"q", "u", "i", "e", "r", "o", " ", "m", "o", "r", "i", "r">>}

\* blank texts, and a text that is not blank but normalises to nothing
TextosDeBorde == {<<" ">>, <<"TAB", "NL">>, <<"~">>}

\* the texts of Spec: at most MaxFragmentos fragments, joined by spaces
Textos == {Join(ws) : ws \in SeqsUpTo(Fragmentos, MaxFragmentos)} \cup TextosDeBorde

\* the compound scores VADER may return, in ten-thousandths
VaderScores == {-10000, -2500, -2499, -500, 0, 500, 2499, 2500, 10000}

\* what sia.polarity_scores may do when called
Respuestas == {[raises |-> TRUE, compound |-> 0]}
              \cup {[raises |-> FALSE, compound |-> v] : v \in VaderScores}

\* with no analyzer nothing is called
RespuestasDe(analizador) ==
    IF analizador = "None" THEN {[raises |-> FALSE, compound |-> 0]} ELSE Respuestas

\* the sentiments a caller may hand to detectar_nivel_riesgo: complete ones,
\* and incomplete ones (keys missing)
EvidenciaLarga == <<EvCritico(<<"m", "a", "t", "a", "r", "m", "e">>), EvFrase(<<"q", "u", "i", "e", "r", "o", " ", "m", "o", "r", "i", "r">>),
                    EvPatron(<<"q", "u", "i", "e", "r", "o", " ", "m", "o", "r", "i", "r">>), EvPatron(<<"m", "a", "t", "a", "r", "m", "e">>)>>

Entradas == {SinValor,
             [SinValor EXCEPT !.claves = {"clasificacion"}, !.clasificacion = "EXTREMO"],
             [SinValor EXCEPT !.claves = {"contenido_extremo"},
                              !.contenido_extremo = EvidenciaLarga],
             Sentimiento("EXTREMO", -1000, EvidenciaLarga),
             Sentimiento("NEUTRO", 0, <<>>),
             Sentimiento("NEGATIVO", -120, <<>>)}

\* the characters of the texts handed to norm alone
NormAlphabet == {"a", "b", "A", "a~", "~", " ", "NL"}

\* the words of the texts handed to the lexicon scorer
VocabularioLexico == {<<"b", "i", "e", "n">>, <<"n", "o", "r", "m", "a", "l">>, <<"t", "r", "i", "s", "t", "e">>}

TextosLexico == {Join(ws) : ws \in SeqsUpTo(VocabularioLexico, MaxTokens)}

\* texts for the lexicon scorer alone: long enough for the clamp to act
TextosSenti == {Join(ws) : ws \in SeqsUpTo(VocabularioLexico, MaxPalabras)}

\* the entries of a list, as a set
Elementos(lista) == {lista[i] : i \in 1..Len(lista)}

\* the phrases the matching uses, as the source writes them
EntradasCatalogo ==
    Elementos(PALABRAS_CRITICAS) \cup Elementos(FRASES_EXTREMAS)
    \cup Elementos(frases_criticas_principales) \cup Elementos(frases_medio_riesgo)

\* the entries of LEXICO, as the source writes them
EntradasLexico ==
    Elementos(LEXICO_pos) \cup Elementos(LEXICO_neg) \cup Elementos(LEXICO_neutro)

\* each lexicon entry as a text, alone and after the positive word "bien"
TextosEntradasLexico ==
    EntradasLexico \cup {Join(<<<<"b", "i", "e", "n">>, e>>) : e \in EntradasLexico}

\* ---- the front ends
\* runs of analisis_completo on one text
MaxCorridas == 2

\* the messages typed into the chats
MensajesChat ==
    {<<"q", "u", "i", "e", "r", "o", " ", "m", "o", "r", "i", "r">>, <<"q", "u", "i", "e", "o", "r", " ", "m", "o", "r", "i", "r">>, <<"e", "s", "t", "o", "y", " ", "a", "g", "o", "t", "a", "d", "o">>, <<"n", "o", " ", "p", "u", "e", "d", "o", " ", "m", "a", "s">>, <<"t", "r", "i", "s", "t", "e">>,
     <<"b", "i", "e", "n">>, <<" ">>, <<"s", "a", "l", "i", "r">>, <<"s", "A", "l", "i", "r">>}

\* the compound scores VADER returns in the chats, in ten-thousandths
VaderChat == {-10000, 0, 10000}

RespuestasChat(analizador) ==
    IF analizador = "None" THEN {[raises |-> FALSE, compound |-> 0]}
    ELSE {[raises |-> TRUE, compound |-> 0]}
         \cup {[raises |-> FALSE, compound |-> v] : v \in VaderChat}

\* the messages typed into the consoles and posted to /api/chat
MensajesFrente ==
    {<<"q", "u", "i", "e", "r", "o", " ", "m", "o", "r", "i", "r">>,
     <<"e", "s", "t", "o", "y", " ", "a", "g", "o", "t", "a", "d", "o">>,
     <<"s", "u", "i", "c", "i", "d", "i", "o">>,
     <<"t", "r", "i", "s", "t", "e">>, <<" ">>, <<"s", "A", "l", "i", "r">>}

\* messages analysed by one front end
MaxMensajes == 2

\* the user names typed into chat_psicologo
NombresDeUsuario == {<<>>, <<" ">>, <<"a", "n", "a">>}

\* the user_id and username fields of the requests to /api/chat
UsuariosApi == {<<>>, <<"a", "n", "a">>}
NombresApi == {<<>>, <<"A", "n", "a">>}

\* the Ollama server behind /api/chat: down, answering with asterisks and
\* blanks only, answering with a text
OllamaFrente ==
    {OllamaCaido, Ollama("None", <<"*", " ", "*">>),
     Ollama("None", <<"*", "h", "o", "l", "a", "*", " ">>)}

\* rows of the table mensajes
MaxFilas == 3

\* the users of the database layer, and the row ids the callers ask about
UsuariosBD == {<<"a", "n", "a">>, <<"b", "o", "b">>}
IdsPedidos == 1..3

\* the limits handed to obtener_mensajes (100 is the default)
Limites == {0, 1, 2, 100}

\* the payloads of /api/claim: the target (<<>> when it is left out), the list
\* of sources, and the dry_run field
Targets == {<<>>, <<"a", "n", "a">>, <<"c", "a", "m">>}
Fuentes ==
    {<<>>, <<<<"b", "o", "b">>>>, <<<<"b", "o", "b">>, <<"a", "n", "a">>>>,
     <<<<"z", "o", "e">>>>}
CamposDryRun == {"omitido", "True", "False", "None", "'false'"}

\* concurrent calls of registrar_usuario_y_obtener_id
MaxLlamadas == 3

\* session tokens issued, and the hours the clock runs
MaxSesiones == 2
MaxReloj == 3

\* the hours_valid handed to create_session
Horas == {0, 1, 2}

\* the length of the texts Ollama answers a direct call with
MaxRespuesta == 3

\* the Ollama servers a direct call of generar_respuesta_con_ia may meet
OllamaPosibles ==
    {Ollama(f, <<>>) : f \in {"conexion", "timeout", "http"}}
    \cup {Ollama("None", t) : t \in SeqsUpTo({"*", " ", "NL", "a"}, MaxRespuesta)}

\* what send_notification does: True, False, or an exception
Envios == {"enviada", "no_enviada", "excepcion"}

\* what sia.polarity_scores may do when a front end analyses a message
RespuestasDelFrente(analizador) ==
    IF analizador = "None" THEN {[raises |-> FALSE, compound |-> 0]}
    ELSE {[raises |-> TRUE, compound |-> 0], [raises |-> FALSE, compound |-> -10000]}

RespuestasFrente == RespuestasDelFrente("ok") \cup RespuestasDelFrente("None")

\* analizar_nota and analisis_completo on the messages of the front ends,
\* computed once for each message, analyzer and answer of the analyzer
NotasFrente ==
    [x \in MensajesFrente \X {"ok", "None"} \X RespuestasFrente |->
        analizar_nota(x[1], x[2], x[3])]

CompletosFrente ==
    [x \in {Strip(m) : m \in MensajesFrente} \X {"ok", "None"} \X RespuestasFrente |->
        analisis_completo(x[1], x[2], x[3])]

\* the levels generar_recomendacion is asked about: the three of the engine
\* and others
NivelesPedidos == {"ALTO", "MEDIO", "BAJO", "CRITICO", "alto", ""}

\* ---- one-character misspellings
AlfabetoTypos == <<"z", " ", "a", "e">>

\* the characters a misspelling of p may bring in: every letter and the space
\* for the phrases the typo-tolerant tier looks for, the first MaxLetras
\* characters of AlfabetoTypos for the other phrases of the catalog
EsFraseCritica(p) == EnLista(p, frases_criticas_principales)

CaracteresTypo(p) ==
    IF EsFraseCritica(p) THEN LowerLetters \cup {" "}
    ELSE {AlfabetoTypos[i] : i \in 1..Min({MaxLetras, Len(AlfabetoTypos)})}

Sustituciones(p) ==
    {[p EXCEPT ![i] = x] : i \in 1..Len(p), x \in CaracteresTypo(p)} \ {p}

Omisiones(p) == {SubSeq(p, 1, i - 1) \o SubSeq(p, i + 1, Len(p)) : i \in 1..Len(p)}

Inserciones(p) ==
    {SubSeq(p, 1, i) \o <<x>> \o SubSeq(p, i + 1, Len(p)) :
         i \in 0..Len(p), x \in CaracteresTypo(p)}

Transposiciones(p) ==
    {[p EXCEPT ![i] = p[i + 1], ![i + 1] = p[i]] : i \in 1..(Len(p) - 1)} \ {p}

Typos(p) == Sustituciones(p) \cup Omisiones(p) \cup Inserciones(p) \cup Transposiciones(p)

\* the phrases that get misspelled
FrasesConTypos ==
    {FRASES_EXTREMAS[i] : i \in 1..Len(FRASES_EXTREMAS)}
    \cup {frases_criticas_principales[i] : i \in 1..Len(frases_criticas_principales)}

\* ============================================================ the machine
\* no call made yet
SinRetorno == [llamada |-> "None", args |-> <<>>, valor |-> <<>>]

\* no front end running
SinSesion == [frente |-> "None", user_uuid |-> <<>>, usuario_id |-> 0, recibidos |-> <<>>]

\* no recommendation asked for yet
SinConsejo == [nivel |-> "None", texto |-> <<>>]

\* the database before the first request: no rows
BaseNueva(d) ==
    [disponible |-> d, usuarios |-> <<>>, alertas |-> <<>>, notificados |-> {},
     mensajes |-> <<>>, sessions |-> <<>>]

SinDeteccion == <<FALSE, <<>>>>
SinAnalisis == [excepcion |-> FALSE, valor |-> SinValor, consultas |-> {}, vader_score |-> 0]
SinRiesgo == [nivel |-> "None", motivos |-> <<>>, valor |-> 0, consultas |-> {}]

Reposo ==
    /\ pc = "inicio"
    /\ normalizado = <<>>
    /\ renormalizado = <<>>
    /\ deteccion = SinDeteccion
    /\ lexico = <<0, 1>>
    /\ analisis = SinAnalisis
    /\ entrada = SinValor
    /\ riesgo = SinRiesgo
    /\ llamadas = {}
    /\ completo = <<>>
    /\ consejo = SinConsejo
    /\ consola = <<>>
    /\ notificaciones = <<>>
    /\ sesion = SinSesion
    /\ retorno = SinRetorno
    /\ reloj = 0
    /\ procesos = <<>>
    /\ emitidos = <<>>

\* a caller holding a text, in a process whose analyzer loaded or did not
Init ==
    /\ bd = BaseNueva(TRUE)
    /\ ollama = OllamaCaido
    /\ texto \in Textos
    /\ sia \in {"ok", "None"}
    /\ origen = <<>>
    /\ Reposo

\* t = norm(texto)
Normalizar ==
    /\ pc = "inicio"
    /\ normalizado' = norm(texto)
    /\ pc' = "normalizado"
    /\ UNCHANGED <<exterior, texto, sia, origen, renormalizado, deteccion, lexico, analisis,
                   entrada, riesgo, llamadas>>

\* norm applied to its own result
Renormalizar ==
    /\ pc = "normalizado"
    /\ renormalizado' = norm(normalizado)
    /\ pc' = "renormalizado"
    /\ UNCHANGED <<exterior, texto, sia, origen, normalizado, deteccion, lexico, analisis,
                   entrada, riesgo, llamadas>>

\* contiene_contenido_extremo(norm(texto)), called directly
ContieneContenidoExtremo ==
    /\ pc = "inicio"
    /\ deteccion' = contiene_contenido_extremo(norm(texto))
    /\ pc' = "detectado"
    /\ UNCHANGED <<exterior, texto, sia, origen, normalizado, renormalizado, lexico, analisis,
                   entrada, riesgo, llamadas>>

\* senti_es(norm(texto)), called directly: on its own, or by a caller that ran
\* the detector first
SentiEs ==
    /\ pc \in {"inicio", "detectado"}
    /\ lexico' = senti_es(norm(texto))
    /\ pc' = IF pc = "inicio" THEN "lexico" ELSE "puntuado"
    /\ UNCHANGED <<exterior, texto, sia, origen, normalizado, renormalizado, deteccion, analisis,
                   entrada, riesgo, llamadas>>

\* the outcomes of analizar_nota past its early returns, one for each answer
\* the analyzer may give
ResultadosAnalisis(previo, analizador) ==
    {AnalisisCombinado(previo, analizador, r) : r \in RespuestasDe(analizador)}

\* analizar_nota(texto)
AnalizarNota ==
    /\ pc \in {"detectado", "puntuado"}
    /\ analisis' \in ResultadosAnalisis(RetornoTemprano(texto), sia)
    /\ llamadas' = analisis'.consultas
    /\ pc' = IF analisis'.excepcion THEN "error" ELSE "analizado"
    /\ UNCHANGED <<exterior, texto, sia, origen, normalizado, renormalizado, deteccion, lexico,
                   entrada, riesgo>>

\* detectar_nivel_riesgo(texto, a): with the result of analizar_nota, as
\* analisis_completo calls it, or with a sentiment of the caller's
DetectarNivelRiesgo ==
    /\ pc \in {"detectado", "analizado"}
    /\ \E a \in (IF pc = "analizado" THEN {analisis.valor} ELSE Entradas) :
           /\ entrada' = a
           /\ riesgo' = detectar_nivel_riesgo(texto, a)
           /\ llamadas' = riesgo'.consultas
    /\ pc' = "evaluado"
    /\ UNCHANGED <<exterior, texto, sia, origen, normalizado, renormalizado, deteccion, lexico,
                   analisis>>

Next == ContieneContenidoExtremo \/ AnalizarNota \/ DetectarNivelRiesgo

Spec == Init /\ [][Next]_vars

\* ---- norm alone
InitNorm ==
    /\ bd = BaseNueva(TRUE)
    /\ ollama = OllamaCaido
    /\ texto \in SeqsUpTo(NormAlphabet, MaxLen) \cup EntradasCatalogo
    /\ sia = "None"
    /\ origen = <<>>
    /\ Reposo

NextNorm == Normalizar \/ Renormalizar

SpecNorm == InitNorm /\ [][NextNorm]_vars

\* ---- the detector on misspelled phrases
InitTypos ==
    /\ bd = BaseNueva(TRUE)
    /\ ollama = OllamaCaido
    /\ origen \in FrasesConTypos
    /\ texto \in Typos(origen)
    /\ sia = "None"
    /\ Reposo

NextTypos == ContieneContenidoExtremo

SpecTypos == InitTypos /\ [][NextTypos]_vars

\* ---- the lexicon scorer and the classifier on lexicon words
InitLexico ==
    /\ bd = BaseNueva(TRUE)
    /\ ollama = OllamaCaido
    /\ texto \in TextosLexico
    /\ sia \in {"ok", "None"}
    /\ origen = <<>>
    /\ Reposo

NextLexico == ContieneContenidoExtremo \/ SentiEs \/ AnalizarNota

SpecLexico == InitLexico /\ [][NextLexico]_vars

\* ---- the lexicon scorer alone
InitSenti ==
    /\ bd = BaseNueva(TRUE)
    /\ ollama = OllamaCaido
    /\ texto \in TextosSenti \cup TextosEntradasLexico
    /\ sia = "None"
    /\ origen = <<>>
    /\ Reposo

NextSenti == SentiEs

SpecSenti == InitSenti /\ [][NextSenti]_vars

\* ---- the pipeline and the front ends
InitChat ==
    /\ texto \in MensajesChat
    /\ sia \in {"ok", "None"}
    /\ origen = <<>>
    /\ bd \in {BaseNueva(TRUE), BaseNueva(FALSE)}
    /\ ollama = OllamaCaido
    /\ Reposo

\* what a run of analisis_completo leaves: the answer of the analyzer, and
\* whether the call raised or what it returned
Corrida(r, c) == [respuesta |-> r, excepcion |-> c.excepcion, valor |-> c.valor]

\* mutant: a run sees how many runs came before it
AnalisisCompletoConMemoria ==
    /\ pc \in {"inicio", "completo"}
    /\ Len(completo) < MaxCorridas
    /\ \E r \in RespuestasChat(sia) :
           completo' = Append(completo,
               [Corrida(r, analisis_completo(texto, sia, r))
                    EXCEPT !.valor.riesgo.valor = @ + Len(completo)])
    /\ pc' = "completo"
    /\ UNCHANGED <<texto, sia, origen, nucleo, consejo, bd, consola, notificaciones, sesion,
                 ollama, retorno, otros>>

\* analisis_completo(texto), once more on the same text
AnalisisCompleto ==
    /\ pc \in {"inicio", "completo"}
    /\ Len(completo) < MaxCorridas
    /\ \E r \in RespuestasChat(sia) :
           completo' = Append(completo, Corrida(r, analisis_completo(texto, sia, r)))
    /\ pc' = "completo"
    /\ UNCHANGED <<texto, sia, origen, nucleo, consejo, bd, consola, notificaciones, sesion,
                 ollama, retorno, otros>>

\* generar_recomendacion(nivel), called directly
GenerarRecomendacion ==
    /\ pc \in {"inicio", "completo"}
    /\ consejo = SinConsejo
    /\ \E nivel \in NivelesPedidos :
           consejo' = [nivel |-> nivel, texto |-> generar_recomendacion(nivel)]
    /\ UNCHANGED <<texto, sia, origen, pc, nucleo, completo, bd, consola, notificaciones,
                   sesion, ollama, retorno, otros>>

NextChat == AnalisisCompleto \/ GenerarRecomendacion

SpecChat == InitChat /\ [][NextChat]_vars

\* ---- the front ends: the two consoles and /api/chat
InitFrentes ==
    /\ texto = <<>>
    /\ sia \in {"ok", "None"}
    /\ origen = <<>>
    /\ bd \in {BaseNueva(TRUE), BaseNueva(FALSE)}
    /\ ollama \in OllamaFrente
    /\ Reposo

\* iniciar_chat_psicologo up to its loop (lines 36-43)
IniciarChatPsicologo ==
    /\ pc = "inicio"
    /\ \E nombre \in NombresDeUsuario :
           LET user_uuid == IF Strip(nombre) = <<>>
                            THEN <<"a", "n", "o", "n", "i", "m", "o">>
                            ELSE Strip(nombre)
               reg == registrar_usuario_y_obtener_id(bd, user_uuid)
           IN  /\ bd' = reg.bd
               /\ sesion' = [frente |-> "psicologo", user_uuid |-> user_uuid,
                             usuario_id |-> reg.id, recibidos |-> <<>>]
    /\ consola' = <<Linea("bienvenida")>>
    /\ pc' = "chat"
    /\ UNCHANGED <<texto, sia, origen, nucleo, completo, consejo, notificaciones, ollama,
                   retorno, otros>>

\* lines 60-67 of chat_psicologo: the alert and the block printed, for the
\* message m with analysis a and the answer rg of detectar_nivel_riesgo
AlertaPsicologo(m, a, rg) ==
    LET riesgo_py == TuplaRiesgo(rg)
        alerta == IF PyIn(riesgo_py, <<PyStr("MEDIO"), PyStr("ALTO")>>)
                  THEN registrar_alerta(bd, sesion.usuario_id, m, a, riesgo_py, <<>>)
                  ELSE [excepcion |-> FALSE, bd |-> bd]
    IN  IF alerta.excepcion
        THEN pc' = "error" /\ UNCHANGED <<bd, consola, sesion>>
        ELSE /\ bd' = alerta.bd
             /\ consola' = Append(consola, LineaPsicologo(a, riesgo_py))
             /\ sesion' = [sesion EXCEPT !.recibidos = Append(@,
                               Recibido(m, a.clasificacion, rg.nivel, rg.valor,
                                        SinRespuesta, FALSE))]
             /\ pc' = "chat"

\* what one turn of the loop of chat_psicologo does with the message m once
\* analizar_nota has answered an
TurnoPsicologo(m, an) ==
    IF an.excepcion
    THEN pc' = "error" /\ UNCHANGED <<bd, consola, sesion>>
    ELSE AlertaPsicologo(m, an.valor, detectar_nivel_riesgo(m, an.valor))

\* one turn of the loop of chat_psicologo (lines 45-67)
MensajeChatPsicologo ==
    /\ pc = "chat"
    /\ sesion.frente = "psicologo"
    /\ Len(sesion.recibidos) < MaxMensajes
    /\ \E m \in MensajesFrente :
           IF EsSalida(m)
           THEN /\ consola' = Append(consola, Linea("despedida"))
                /\ pc' = "fin"
                /\ UNCHANGED <<bd, sesion>>
           ELSE IF Strip(m) = <<>>
           THEN UNCHANGED <<pc, bd, consola, sesion>>
           ELSE \E r \in RespuestasDelFrente(sia) : TurnoPsicologo(m, NotasFrente[<<m, sia, r>>])
    /\ UNCHANGED <<texto, sia, origen, nucleo, completo, consejo, notificaciones, ollama,
                   retorno, otros>>

\* iniciar_chat_consola up to its loop (lines 48-50)
IniciarChatConsola ==
    /\ pc = "inicio"
    /\ sesion' = [frente |-> "consola", user_uuid |-> <<>>, usuario_id |-> 0,
                  recibidos |-> <<>>]
    /\ consola' = <<Linea("bienvenida")>>
    /\ pc' = "chat"
    /\ UNCHANGED <<texto, sia, origen, nucleo, completo, consejo, bd, notificaciones,
                 ollama, retorno, otros>>

\* lines 70-85 of test_consola: the block printed for the message m with
\* analysis a and the answer rg of detectar_nivel_riesgo
MostrarConsola(m, a, rg) ==
    /\ consola' = Append(consola, LineaConsola(a, TuplaRiesgo(rg)))
    /\ sesion' = [sesion EXCEPT !.recibidos = Append(@,
                      Recibido(m, a.clasificacion, rg.nivel, rg.valor, SinRespuesta,
                               FALSE))]
    /\ pc' = "chat"

\* what one turn of the loop of test_consola does with the message m once
\* analizar_nota has answered an
TurnoConsola(m, an) ==
    IF an.excepcion
    THEN pc' = "error" /\ UNCHANGED <<consola, sesion>>
    ELSE MostrarConsola(m, an.valor, detectar_nivel_riesgo(m, an.valor))

\* one turn of the loop of test_consola (lines 52-85); the console may be closed
MensajeChatConsola ==
    /\ pc = "chat"
    /\ sesion.frente = "consola"
    /\ Len(sesion.recibidos) < MaxMensajes
    /\ \/ /\ pc' = "fin"
          /\ UNCHANGED <<consola, sesion>>
       \/ \E m \in MensajesFrente :
              IF EsSalida(m)
              THEN /\ consola' = Append(consola, Linea("despedida"))
                   /\ pc' = "fin"
                   /\ UNCHANGED sesion
              ELSE IF Strip(m) = <<>>
              THEN UNCHANGED <<pc, consola, sesion>>
              ELSE \E r \in RespuestasDelFrente(sia) : TurnoConsola(m, NotasFrente[<<m, sia, r>>])
    /\ UNCHANGED <<texto, sia, origen, nucleo, completo, consejo, bd, notificaciones,
                 ollama, retorno, otros>>

\* lines 286-296 of /api/chat: the answer, the alert and the two rows of the
\* conversation, for the message m with analysis a
ChatAtendido(m, user_id, username, base, a) ==
    \E envio \in IF a.riesgo = "ALTO" THEN Envios ELSE {"no_enviada"} :
        LET respuesta == generar_respuesta_con_ia(a.riesgo, username, ollama)
            al == registrar_alerta_si_corresponde(base, notificaciones, user_id, m, a,
                                                  username, envio)
            reg == registrar_usuario_y_obtener_id(al.bd, user_id)
            g1 == guardar_mensaje(reg.bd, reg.id, "user", m)
            g2 == guardar_mensaje(g1.bd, reg.id, "assistant", respuesta.texto)
        IN  /\ bd' = IF al.excepcion THEN al.bd
                     ELSE IF g1.excepcion THEN g1.bd
                     ELSE g2.bd
            /\ notificaciones' = al.notificaciones
            /\ sesion' = [frente |-> "api", user_uuid |-> user_id, usuario_id |-> reg.id,
                          recibidos |-> Append(sesion.recibidos,
                              Recibido(m, a.clasificacion, a.riesgo, a.valor[1],
                                       respuesta, al.excepcion))]

\* lines 279-296 of /api/chat, once analisis_completo has raised or returned c:
\* the user is registered, then the message is answered
ChatAnalizado(m, user_id, username, base, c) ==
    IF c.excepcion
    THEN /\ bd' = base
         /\ UNCHANGED <<notificaciones, sesion>>
    ELSE ChatAtendido(m, user_id, username, base, procesar_analisis(c.valor))

\* a POST to /api/chat (lines 271-298)
Chat ==
    /\ pc \in {"inicio", "api"}
    /\ sesion.frente \in {"None", "api"}
    /\ Len(sesion.recibidos) < MaxMensajes
    /\ \E cuerpo \in MensajesFrente, user_id \in UsuariosApi, username \in NombresApi :
           IF Strip(cuerpo) = <<>> \/ user_id = <<>>
           THEN UNCHANGED <<bd, notificaciones, sesion>>
           ELSE \E r \in RespuestasDelFrente(sia) :
                    ChatAnalizado(Strip(cuerpo), user_id, username,
                                  registrar_usuario_y_obtener_id(bd, user_id).bd,
                                  CompletosFrente[<<Strip(cuerpo), sia, r>>])
    /\ pc' = "api"
    /\ UNCHANGED <<texto, sia, origen, nucleo, completo, consejo, consola, ollama, retorno,
                   otros>>

\* ---- the tables usuarios and mensajes, used directly
InitMensajes ==
    /\ texto = <<>>
    /\ sia = "None"
    /\ origen = <<>>
    /\ bd \in {BaseNueva(TRUE), BaseNueva(FALSE)}
    /\ ollama = OllamaCaido
    /\ Reposo

\* registrar_usuario_y_obtener_id(user_uuid)
RegistrarUsuario ==
    /\ \E user_uuid \in UsuariosBD :
           /\ bd' = registrar_usuario_y_obtener_id(bd, user_uuid).bd
           /\ retorno' = [llamada |-> "registrar_usuario_y_obtener_id",
                          args |-> <<user_uuid>>,
                          valor |-> registrar_usuario_y_obtener_id(bd, user_uuid).id]
    /\ UNCHANGED <<texto, sia, origen, pc, nucleo, completo, consejo, consola,
                   notificaciones, sesion, ollama, otros>>

\* guardar_mensaje(usuario_id, sender, mensaje)
GuardarMensaje ==
    /\ Len(bd.mensajes) < MaxFilas
    /\ \E usuario_id \in IdsPedidos, sender \in {"user", "assistant"} :
           /\ bd' = guardar_mensaje(bd, usuario_id, sender, <<"h", "o", "l", "a">>).bd
           /\ retorno' = [llamada |-> "guardar_mensaje",
                          args |-> <<usuario_id, sender>>,
                          valor |-> guardar_mensaje(bd, usuario_id, sender,
                                                    <<"h", "o", "l", "a">>).excepcion]
    /\ UNCHANGED <<texto, sia, origen, pc, nucleo, completo, consejo, consola,
                   notificaciones, sesion, ollama, otros>>

\* obtener_mensajes(usuario_id, limit)
ObtenerMensajes ==
    /\ \E usuario_id \in IdsPedidos, limit \in Limites :
           retorno' = [llamada |-> "obtener_mensajes", args |-> <<usuario_id, limit>>,
                       valor |-> obtener_mensajes(bd, usuario_id, limit)]
    /\ UNCHANGED <<texto, sia, origen, pc, nucleo, completo, consejo, bd, consola,
                   notificaciones, sesion, ollama, otros>>

NextMensajes == RegistrarUsuario \/ GuardarMensaje \/ ObtenerMensajes

SpecMensajes == InitMensajes /\ [][NextMensajes]_vars

\* ---- /api/claim
InitClaim ==
    /\ texto = <<>>
    /\ sia = "None"
    /\ origen = <<>>
    /\ bd \in {[BaseNueva(d) EXCEPT !.usuarios = <<<<"a", "n", "a">>, <<"b", "o", "b">>>>] :
                   d \in BOOLEAN}
    /\ ollama = OllamaCaido
    /\ Reposo

\* POST /api/claim
ApiClaim ==
    /\ \E target \in Targets, sources \in Fuentes, campo \in CamposDryRun :
           LET r == api_claim(bd, target, sources, campo)
           IN  /\ bd' = r.bd
               /\ retorno' = [llamada |-> "api_claim",
                              args |-> <<target, sources, campo>>,
                              valor |-> [status |-> r.status, cuerpo |-> r.cuerpo]]
    /\ UNCHANGED <<texto, sia, origen, pc, nucleo, completo, consejo, consola,
                   notificaciones, sesion, ollama, otros>>

NextClaim == GuardarMensaje \/ ApiClaim

SpecClaim == InitClaim /\ [][NextClaim]_vars

\* ---- registrar_usuario_y_obtener_id, called by concurrent requests
InitUsuarios ==
    /\ texto = <<>>
    /\ sia = "None"
    /\ origen = <<>>
    /\ bd \in {BaseNueva(TRUE), [BaseNueva(TRUE) EXCEPT !.usuarios = <<<<"b", "o", "b">>>>]}
    /\ ollama = OllamaCaido
    /\ Reposo

\* a request enters registrar_usuario_y_obtener_id: it opens its own
\* connection and runs the SELECT; `visto` is the id it read, 0 for no row
ConsultarUsuario ==
    /\ Len(procesos) < MaxLlamadas
    /\ \E user_uuid \in UsuariosBD :
           procesos' = Append(procesos,
               [user_uuid |-> user_uuid, pc |-> "select",
                visto |-> BuscarUsuario(bd, user_uuid), excepcion |-> FALSE, valor |-> 0])
    /\ UNCHANGED <<texto, sia, origen, pc, nucleo, completo, consejo, bd, consola,
                   notificaciones, sesion, ollama, retorno, reloj, emitidos>>

\* the request goes on past its SELECT: the UPDATE of the row it read, or the
\* INSERT, which sqlite3 refuses with IntegrityError when the user_id has a
\* row by now (user_id is UNIQUE); then the commit and the return
EscribirUsuario ==
    /\ \E p \in 1..Len(procesos) :
           /\ procesos[p].pc = "select"
           /\ IF procesos[p].visto # 0
              THEN /\ procesos' = [procesos EXCEPT ![p].pc = "fin",
                                                   ![p].valor = procesos[p].visto]
                   /\ bd' = bd
              ELSE IF BuscarUsuario(bd, procesos[p].user_uuid) # 0
              THEN /\ procesos' = [procesos EXCEPT ![p].pc = "fin", ![p].excepcion = TRUE]
                   /\ bd' = bd
              ELSE /\ procesos' = [procesos EXCEPT ![p].pc = "fin",
                                                   ![p].valor = Len(bd.usuarios) + 1]
                   /\ bd' = [bd EXCEPT !.usuarios = Append(@, procesos[p].user_uuid)]
    /\ UNCHANGED <<texto, sia, origen, pc, nucleo, completo, consejo, consola,
                   notificaciones, sesion, ollama, retorno, reloj, emitidos>>

NextUsuarios == ConsultarUsuario \/ EscribirUsuario

SpecUsuarios == InitUsuarios /\ [][NextUsuarios]_vars

\* ---- the sessions
InitSesiones ==
    /\ texto = <<>>
    /\ sia = "None"
    /\ origen = <<>>
    /\ bd \in {[BaseNueva(d) EXCEPT !.usuarios = <<<<"a", "n", "a">>, <<"b", "o", "b">>>>] :
                   d \in BOOLEAN}
    /\ ollama = OllamaCaido
    /\ Reposo

\* create_session(usuario_id, hours_valid); the token is a fresh one
CreateSession ==
    /\ Len(emitidos) < MaxSesiones
    /\ \E usuario_id \in IdsPedidos, hours_valid \in Horas :
           LET c == create_session(bd, usuario_id, hours_valid, Len(emitidos) + 1, reloj)
           IN  /\ bd' = c.bd
               /\ retorno' = [llamada |-> "create_session",
                              args |-> <<usuario_id, hours_valid, reloj>>,
                              valor |-> IF c.excepcion THEN -1 ELSE c.valor]
               /\ emitidos' = IF c.valor = 0 THEN emitidos
                               ELSE Append(emitidos,
                                        [usuario_id |-> usuario_id,
                                         expiry |-> reloj + hours_valid,
                                         borrado |-> FALSE])
    /\ UNCHANGED <<texto, sia, origen, pc, nucleo, completo, consejo, consola,
                   notificaciones, sesion, ollama, reloj, procesos>>

\* validate_session(token), of a token issued or not
ValidateSession ==
    /\ \E token \in 0..(MaxSesiones + 1) :
           /\ bd' = validate_session(bd, token, reloj).bd
           /\ retorno' = [llamada |-> "validate_session", args |-> <<token, reloj>>,
                          valor |-> validate_session(bd, token, reloj).valor]
    /\ UNCHANGED <<texto, sia, origen, pc, nucleo, completo, consejo, consola,
                   notificaciones, sesion, ollama, otros>>

\* delete_session(token), of a token issued or not
DeleteSession ==
    /\ \E token \in 0..(MaxSesiones + 1) :
           /\ bd' = delete_session(bd, token).bd
           /\ retorno' = [llamada |-> "delete_session", args |-> <<token, reloj>>,
                          valor |-> delete_session(bd, token).valor]
           /\ emitidos' = [k \in 1..Len(emitidos) |->
                              IF k = token THEN [emitidos[k] EXCEPT !.borrado = TRUE]
                              ELSE emitidos[k]]
    /\ UNCHANGED <<texto, sia, origen, pc, nucleo, completo, consejo, consola,
                   notificaciones, sesion, ollama, reloj, procesos>>

\* an hour passes
PasaUnaHora ==
    /\ reloj < MaxReloj
    /\ reloj' = reloj + 1
    /\ UNCHANGED <<texto, sia, origen, pc, nucleo, completo, consejo, bd, consola,
                   notificaciones, sesion, ollama, retorno, procesos, emitidos>>

NextSesiones == CreateSession \/ ValidateSession \/ DeleteSession \/ PasaUnaHora

SpecSesiones == InitSesiones /\ [][NextSesiones]_vars

\* ---- generar_respuesta_con_ia, called directly
InitIA ==
    /\ texto = <<>>
    /\ sia = "None"
    /\ origen = <<>>
    /\ bd = BaseNueva(FALSE)
    /\ ollama \in OllamaPosibles
    /\ Reposo

\* generar_respuesta_con_ia for a level and a user name; the reply is kept as
\* the one message of the session
GenerarRespuestaConIA ==
    /\ pc = "inicio"
    /\ sesion = SinSesion
    /\ \E nivel \in NivelesPedidos, username \in NombresApi :
           sesion' = [frente |-> "ia", user_uuid |-> username, usuario_id |-> 0,
                      recibidos |-> <<Recibido(<<>>, "None", nivel, 0,
                          generar_respuesta_con_ia(nivel, username, ollama), FALSE)>>]
    /\ pc' = "respondido"
    /\ UNCHANGED <<texto, sia, origen, nucleo, completo, consejo, bd, consola,
                   notificaciones, ollama, retorno, otros>>

NextIA == GenerarRespuestaConIA

SpecIA == InitIA /\ [][NextIA]_vars

NextFrentes ==
    \/ IniciarChatPsicologo
    \/ MensajeChatPsicologo
    \/ IniciarChatConsola
    \/ MensajeChatConsola
    \/ Chat

SpecFrentes == InitFrentes /\ [][NextFrentes]_vars

\* ================================================================ claims
\* analizar_nota has returned or raised
Analizado == analisis # SinAnalisis

\* detectar_nivel_riesgo has returned
Evaluado == riesgo # SinRiesgo

\* how many words of the normalised text are in a lexicon list
Cuenta(lista) ==
    LET palabras == Split(norm(texto))
    IN  Cardinality({i \in 1..Len(palabras) : EnLista(palabras[i], lista)})

\* C1: extreme precedence.  Whenever the detector matches the normalised form
\* of a non-blank text, analizar_nota returns EXTREMO with score -1.0 whatever
\* the external scorer does, and detectar_nivel_riesgo returns ALTO with
\* severity 3 whatever sentiment it is handed.
C1_ExtremePrecedence ==
    (~EsVacio(texto) /\ deteccion[1]) =>
        /\ Analizado => /\ ~analisis.excepcion
                        /\ analisis.valor.clasificacion = "EXTREMO"
                        /\ analisis.valor.puntuacion_compuesta = -1000
        /\ Evaluado => riesgo.nivel = "ALTO" /\ riesgo.valor = 3

C1_Witness ==
    /\ deteccion[1]
    /\ sia = "ok"
    /\ Analizado
    /\ analisis.valor.clasificacion = "EXTREMO"
    /\ Evaluado
    /\ riesgo.nivel = "ALTO"

\* the normalised text contains the normalised form of a medium-risk phrase
ContieneFraseMedio(t) ==
    \E i \in 1..Len(frases_medio_riesgo) : Contains(t, norm(frases_medio_riesgo[i]))

\* C2: medium-risk rule.  A non-blank text the detector does not match, handed
\* in with a sentiment that is not EXTREMO, whose normalised form contains the
\* normalised form of a medium-risk phrase, gets MEDIO with severity 2.
C2_MediumRiskRule ==
    (/\ Evaluado
     /\ ~EsVacio(texto)
     /\ ~deteccion[1]
     /\ GetClasificacion(entrada) # "EXTREMO"
     /\ ContieneFraseMedio(norm(texto)))
        => riesgo.nivel = "MEDIO" /\ riesgo.valor = 2

\* C3 as stated: for every text, blank ones included, the level is ALTO
\* exactly when the sentiment handed in is EXTREMO or the detector matches.
C3_AltoIffAnyText ==
    Evaluado =>
        (riesgo.nivel = "ALTO" <=> (GetClasificacion(entrada) = "EXTREMO" \/ deteccion[1]))

\* C3: for every text that is not blank and every sentiment handed in,
\* complete or not, the level is ALTO exactly when that sentiment is EXTREMO
\* or the detector matches the normalised text.
C3_AltoIff ==
    (Evaluado /\ ~EsVacio(texto)) =>
        (riesgo.nivel = "ALTO" <=> (GetClasificacion(entrada) = "EXTREMO" \/ deteccion[1]))

C3_Witness ==
    /\ Evaluado
    /\ ~EsVacio(texto)
    /\ deteccion[1]
    /\ entrada.claves = {}
    /\ riesgo.nivel = "ALTO"

\* C4: monotonic severity.  Every result of detectar_nivel_riesgo is one of
\* (ALTO, 3), (MEDIO, 2), (BAJO, 1).
C4_MonotonicSeverity ==
    Evaluado => <<riesgo.nivel, riesgo.valor>> \in {<<"ALTO", 3>>, <<"MEDIO", 2>>, <<"BAJO", 1>>}

C4_Witness == Evaluado /\ riesgo.nivel = "MEDIO" /\ riesgo.valor = 2

\* the text is empty or made of whitespace only
SoloEspacios(t) == \A i \in 1..Len(t) : IsSpace(t[i])

\* C5: neutral default.  On an empty or whitespace-only text analizar_nota
\* returns {NEUTRO, 0.0, []} and detectar_nivel_riesgo returns (BAJO, [], 1),
\* neither raises and neither consults the detector or the external scorer.
C5_NeutralDefault ==
    SoloEspacios(texto) =>
        /\ Analizado => /\ ~analisis.excepcion
                        /\ analisis.valor = Sentimiento("NEUTRO", 0, <<>>)
                        /\ analisis.consultas = {}
        /\ Evaluado => /\ riesgo.nivel = "BAJO"
                       /\ riesgo.motivos = <<>>
                       /\ riesgo.valor = 1
                       /\ riesgo.consultas = {}

C5_Witness ==
    /\ SoloEspacios(texto)
    /\ texto # <<>>
    /\ Evaluado
    /\ GetClasificacion(entrada) = "EXTREMO"
    /\ riesgo.nivel = "BAJO"

\* C6: norm is idempotent: norm(norm(x)) = norm(x).
C6_Idempotence == pc = "renormalizado" => renormalizado = normalizado

\* the normal form the specification describes
FormaNormal(t) ==
    /\ \A i \in 1..Len(t) : t[i] \notin UpperLetters \cup AccentedUpper
    /\ \A i \in 1..Len(t) : ~IsMn(t[i])
    /\ \A i \in 1..(Len(t) - 2) : ~(t[i] = t[i + 1] /\ t[i + 1] = t[i + 2])
    /\ \A i \in 1..Len(t) : IsSpace(t[i]) => t[i] = " "
    /\ \A i \in 1..(Len(t) - 1) : ~(IsSpace(t[i]) /\ IsSpace(t[i + 1]))
    /\ t # <<>> => ~IsSpace(t[1]) /\ ~IsSpace(t[Len(t)])

\* C7: the output of norm has no upper-case letter, no combining mark, no run
\* of 3 or more identical characters, no whitespace but single spaces between
\* tokens, and no leading or trailing whitespace.
C7_NormalForm == pc \in {"normalizado", "renormalizado"} => FormaNormal(normalizado)

\* neither exact tier of the detector finds anything in t
SinCoincidenciaExacta(t) ==
    CoincidenciasCriticas(t) = <<>> /\ CoincidenciasFrases(t) = <<>>

\* the detector reported an approximate match
HayEntradaFuzzy ==
    deteccion[1] /\ \E i \in 1..Len(deteccion[2]) : deteccion[2][i].tipo = "FUZZY"

\* C8 as stated: every one-character misspelling of every phrase of the
\* extreme-risk catalog that no exact tier matches is caught by the
\* typo-tolerant tier.
C8_FuzzyToleranceCatalog ==
    (/\ pc = "detectado"
     /\ EnLista(origen, FRASES_EXTREMAS)
     /\ SinCoincidenciaExacta(norm(texto)))
        => HayEntradaFuzzy

\* C8: every one-character misspelling (a character replaced, dropped or
\* inserted, or two neighbours swapped) of a phrase the typo-tolerant tier
\* looks for, that has as many words as the phrase and that no exact tier
\* matches, is reported as matched with an approximate-match entry.
C8_FuzzyTolerance ==
    (/\ pc = "detectado"
     /\ EsFraseCritica(origen)
     /\ Len(Split(norm(texto))) = Len(Split(origen))
     /\ SinCoincidenciaExacta(norm(texto)))
        => HayEntradaFuzzy

C8_Witness ==
    /\ pc = "detectado"
    /\ origen = <<"n", "o", " ", "q", "u", "i", "e", "r", "o", " ", "v", "i", "v", "i", "r", " ", "m", "a", "s">>
    /\ texto = <<"n", "o", " ", "q", "u", "i", "e", "o", "r", " ", "v", "i", "v", "i", "r", " ", "m", "a", "s">>
    /\ SinCoincidenciaExacta(norm(texto))
    /\ HayEntradaFuzzy

\* C9: collaborator failure is absorbed.  On a non-blank text the detector does
\* not match, analizar_nota returns whatever the external scorer does: with no
\* scorer the result is the one computed with an external score of 0.0, and a
\* scorer that raises makes no error reach the caller.
C9_CollaboratorAbsorbed ==
    (Analizado /\ ~EsVacio(texto) /\ ~deteccion[1]) =>
        /\ ~analisis.excepcion
        /\ sia = "None" => analisis.valor = Clasificar(0, senti_es(norm(texto)))

\* C10 as stated: a text the detector does not match, with exactly one positive
\* word and at least one neutral word, is NEUTRO with score 0.0 for every
\* external score.
C10_NeutralityAnyScore ==
    (/\ Analizado
     /\ ~analisis.excepcion
     /\ ~deteccion[1]
     /\ Cuenta(LEXICO_pos) = 1
     /\ Cuenta(LEXICO_neutro) >= 1)
        => /\ analisis.valor.clasificacion = "NEUTRO"
           /\ analisis.valor.puntuacion_compuesta = 0

\* C10: a text the detector does not match, with exactly one positive word, at
\* most two negative words and at least one neutral word, is NEUTRO with score
\* 0.0 when the external score e is within -0.25 < e < 0.25 (0.0 with no
\* scorer); it is POSITIVO for e >= 0.25 and NEGATIVO for e <= -0.25.
C10_NeutralityOverride ==
    (/\ Analizado
     /\ ~analisis.excepcion
     /\ ~deteccion[1]
     /\ Cuenta(LEXICO_pos) = 1
     /\ Cuenta(LEXICO_neg) <= 2
     /\ Cuenta(LEXICO_neutro) >= 1)
        => /\ Abs(analisis.vader_score) < 2500 =>
                  /\ analisis.valor.clasificacion = "NEUTRO"
                  /\ analisis.valor.puntuacion_compuesta = 0
           /\ analisis.vader_score >= 2500 => analisis.valor.clasificacion = "POSITIVO"
           /\ analisis.vader_score <= -2500 => analisis.valor.clasificacion = "NEGATIVO"

C10_Witness ==
    /\ Analizado
    /\ ~analisis.excepcion
    /\ texto = <<"b", "i", "e", "n", " ", "n", "o", "r", "m", "a", "l">>
    /\ analisis.vader_score = 2499
    /\ analisis.valor.clasificacion = "NEUTRO"

\* analizar_nota returned from its combined scoring: the text is not blank
\* and the detector did not match it
Puntuado == Analizado /\ ~analisis.excepcion /\ ~EsVacio(texto) /\ ~deteccion[1]

\* the exact value of 0.4 * e + 0.6 * l for the call that returned
CompuestaExacta == Ponderacion(analisis.vader_score, senti_es(norm(texto)))

\* every result carries a score in [-1, 1], 0.0 with NEUTRO, -1.0 with EXTREMO
PuntuacionEnRango ==
    (Analizado /\ ~analisis.excepcion) =>
        /\ analisis.valor.puntuacion_compuesta \in -1000..1000
        /\ analisis.valor.clasificacion = "NEUTRO" => analisis.valor.puntuacion_compuesta = 0
        /\ analisis.valor.clasificacion = "EXTREMO" =>
               analisis.valor.puntuacion_compuesta = -1000

\* C11 as stated: with c the real number 0.4 * e + 0.6 * l, the result is
\* POSITIVO with score >= 0.1 when c >= 0.1, NEGATIVO with score <= -0.1 when
\* c <= -0.1, and NEUTRO with score 0.0 otherwise.
C11_ExactThresholds ==
    Puntuado =>
        LET c == CompuestaExacta
            v == analisis.valor
        IN  /\ 10 * c[1] >= c[2] =>
                   v.clasificacion = "POSITIVO" /\ v.puntuacion_compuesta >= 100
            /\ 10 * c[1] <= -c[2] =>
                   v.clasificacion = "NEGATIVO" /\ v.puntuacion_compuesta <= -100
            /\ (10 * c[1] < c[2] /\ 10 * c[1] > -c[2]) =>
                   v.clasificacion = "NEUTRO" /\ v.puntuacion_compuesta = 0

\* C11: the thresholds are applied to the double (e * 0.4) + (l * 0.6).  Where
\* that double equals the real sum's comparison with 0.1 and -0.1 the result
\* is POSITIVO with score >= 0.1 for c >= 0.1, NEGATIVO with score <= -0.1 for
\* c <= -0.1 and NEUTRO with 0.0 otherwise; where the real sum is exactly 0.1
\* or -0.1 and the double falls short of it the result is NEUTRO with 0.0.
\* Every result has its score in [-1, 1], 0.0 with NEUTRO, -1.0 with EXTREMO.
C11_Thresholds ==
    /\ PuntuacionEnRango
    /\ Puntuado =>
        LET c == CompuestaExacta
            v == analisis.valor
            corta == SumaQuedaCorta(senti_es(norm(texto)), analisis.vader_score)
        IN  /\ (10 * c[1] >= c[2] /\ ~corta) =>
                   v.clasificacion = "POSITIVO" /\ v.puntuacion_compuesta >= 100
            /\ (10 * c[1] <= -c[2] /\ ~corta) =>
                   v.clasificacion = "NEGATIVO" /\ v.puntuacion_compuesta <= -100
            /\ ((10 * c[1] < c[2] /\ 10 * c[1] > -c[2]) \/ corta) =>
                   v.clasificacion = "NEUTRO" /\ v.puntuacion_compuesta = 0

C11_Witness ==
    /\ Puntuado
    /\ texto = <<"b", "i", "e", "n">>
    /\ analisis.vader_score = -500
    /\ 10 * CompuestaExacta[1] = CompuestaExacta[2]
    /\ analisis.valor.clasificacion = "NEUTRO"

EntradasDeTipo(tipos) == {i \in 1..Len(deteccion[2]) : deteccion[2][i].tipo \in tipos}

\* the regex rules that match t
ReglasQueCasan(t) == {k \in 1..Len(patrones_criticos) : ReSearch(patrones_criticos[k][1], t)}

\* C13: tier ordering.  The typo-tolerant tier contributes evidence only when
\* the keyword scan and the phrase scan both found nothing; the regex tier
\* reports every rule that matches whatever the earlier tiers found; no
\* evidence list holds both an exact entry and a fuzzy entry.
C13_TierOrdering ==
    pc = "detectado" =>
        /\ EntradasDeTipo({"TYPOS", "FUZZY"}) # {} =>
               /\ SinCoincidenciaExacta(norm(texto))
               /\ EntradasDeTipo({"CRITICO", "FRASE"}) = {}
        /\ \A k \in ReglasQueCasan(norm(texto)) :
               \E i \in EntradasDeTipo({"PATRON"}) :
                   deteccion[2][i].patron = patrones_criticos[k][2]

C13_Witness ==
    /\ pc = "detectado"
    /\ EntradasDeTipo({"CRITICO", "FRASE"}) # {}
    /\ EntradasDeTipo({"PATRON"}) # {}
    /\ ReglasQueCasan(norm(texto)) # {}

\* the critical keywords and the extreme phrases that occur in t
ClavesPresentes(t) ==
    {k \in 1..Len(PALABRAS_CRITICAS) : Contains(t, norm(PALABRAS_CRITICAS[k]))}

FrasesPresentes(t) ==
    {k \in 1..Len(FRASES_EXTREMAS) : Contains(t, norm(FRASES_EXTREMAS[k]))}

\* the windows of t (phrase k, 0-based start i) whose similarity to the phrase
\* reaches 0.85
VentanasParecidas(t) ==
    LET w == Split(t)
    IN  {ki \in (1..Len(frases_criticas_principales)) \X (0..Len(w)) :
            LET f == frases_criticas_principales[ki[1]]
                n == Len(Split(f))
            IN  /\ ki[2] + n <= Len(w)
                /\ 100 * similitud(Join(SubSeq(w, ki[2] + 1, ki[2] + n)), f)[1]
                       >= 85 * similitud(Join(SubSeq(w, ki[2] + 1, ki[2] + n)), f)[2]}

\* the hits of the four tiers on t; the fuzzy tier hits only after two empty
\* exact tiers
Aciertos(t) ==
    LET exactos == Cardinality(ClavesPresentes(t)) + Cardinality(FrasesPresentes(t))
    IN  [criticos |-> Cardinality(ClavesPresentes(t)),
         frases |-> Cardinality(FrasesPresentes(t)),
         fuzzy |-> IF exactos = 0 THEN Cardinality(VentanasParecidas(t)) ELSE 0,
         patrones |-> Cardinality(ReglasQueCasan(t))]

\* the place of a label in the discovery order
Rango(tipo) ==
    CASE tipo = "CRITICO" -> 1
      [] tipo = "FRASE" -> 2
      [] tipo = "TYPOS" -> 3
      [] tipo = "FUZZY" -> 3
      [] tipo = "PATRON" -> 4

\* matched iff some tier hit; one entry per hit of each tier; discovery order;
\* a fuzzy entry carries the window, the phrase and their similarity
EvidenciaPorAcierto(a) ==
    /\ deteccion[1] <=> (a.criticos + a.frases + a.fuzzy + a.patrones > 0)
    /\ Cardinality(EntradasDeTipo({"CRITICO"})) = a.criticos
    /\ Cardinality(EntradasDeTipo({"FRASE"})) = a.frases
    /\ Cardinality(EntradasDeTipo({"FUZZY"})) = a.fuzzy
    /\ Cardinality(EntradasDeTipo({"PATRON"})) = a.patrones
    /\ \A i \in 1..(Len(deteccion[2]) - 1) :
           Rango(deteccion[2][i].tipo) <= Rango(deteccion[2][i + 1].tipo)
    /\ \A i \in EntradasDeTipo({"FUZZY"}) :
           /\ EsFraseCritica(deteccion[2][i].patron)
           /\ deteccion[2][i].sim
                  = Centesimas(similitud(deteccion[2][i].ventana, deteccion[2][i].patron))
           /\ deteccion[2][i].sim >= 85

\* C14 as stated: matched iff some tier hit, and the evidence list holds
\* exactly one entry per hit, in discovery order.
C14_OneEntryPerHit ==
    pc = "detectado" =>
        LET a == Aciertos(norm(texto))
        IN  /\ EvidenciaPorAcierto(a)
            /\ Len(deteccion[2]) = a.criticos + a.frases + a.fuzzy + a.patrones

\* C14: matched iff a keyword, a phrase, a fuzzy window (tried only after two
\* empty exact tiers) or a regex rule hit; the evidence list holds one entry
\* per hit in discovery order (keywords, phrases, fuzzy windows, regex rules)
\* and, when the fuzzy tier hit, one more entry: the heading placed before
\* the fuzzy entries.
C14_EvidencePerHit ==
    pc = "detectado" =>
        LET a == Aciertos(norm(texto))
        IN  /\ EvidenciaPorAcierto(a)
            /\ Cardinality(EntradasDeTipo({"TYPOS"})) = (IF a.fuzzy > 0 THEN 1 ELSE 0)
            /\ Len(deteccion[2]) = a.criticos + a.frases + a.fuzzy + a.patrones
                                   + (IF a.fuzzy > 0 THEN 1 ELSE 0)
            /\ \A i \in EntradasDeTipo({"TYPOS"}) :
                   /\ i < Len(deteccion[2])
                   /\ deteccion[2][i + 1].tipo = "FUZZY"
                   /\ i > 1 => deteccion[2][i - 1].tipo \notin {"FUZZY", "PATRON"}

C14_Witness ==
    /\ pc = "detectado"
    /\ Aciertos(norm(texto)).fuzzy > 0
    /\ EntradasDeTipo({"TYPOS"}) = {1}
    /\ Len(deteccion[2]) = Aciertos(norm(texto)).fuzzy + Aciertos(norm(texto)).patrones + 1

\* C15: every entry of the catalogs used for matching (critical keywords,
\* extreme phrases, the fuzzy-tier subset, the medium-risk phrases) is in
\* normalised form, norm(p) = p, and every phrase of the fuzzy-tier subset is
\* a member of the extreme-phrase catalog.
C15_CatalogNormalized ==
    (pc = "normalizado" /\ texto \in EntradasCatalogo) =>
        /\ normalizado = texto
        /\ texto \in Elementos(frases_criticas_principales) =>
               texto \in Elementos(FRASES_EXTREMAS)

\* C16: the positive, negative and neutral lexicons are pairwise disjoint and
\* every entry is a single normalised word without whitespace, so that a
\* token can match it: after the one positive word "bien" a neutral entry
\* makes senti_es return 0.
C16_LexiconWords ==
    pc = "lexico" =>
        /\ texto \in EntradasLexico =>
               /\ norm(texto) = texto
               /\ Split(texto) = <<texto>>
               /\ Cardinality({k \in {"pos", "neg", "neutro"} :
                      texto \in Elementos(CASE k = "pos" -> LEXICO_pos
                                            [] k = "neg" -> LEXICO_neg
                                            [] k = "neutro" -> LEXICO_neutro)}) = 1
        /\ \A e \in Elementos(LEXICO_neutro) :
               texto = Join(<<<<"b", "i", "e", "n">>, e>>) => lexico = <<0, 1>>

C18_Recommendation ==
    /\ consejo # SinConsejo =>
           /\ consejo.nivel = "ALTO" =>
                  /\ consejo.texto[1] = "ACCION INMEDIATA REQUERIDA:"
                  /\ \E k \in 1..Len(consejo.texto) : consejo.texto[k]
                         = "- Contactar linea de prevencion del suicidio: [Numero local]"
           /\ consejo.nivel = "MEDIO" => consejo.texto[1] = "ATENCION RECOMENDADA:"
           /\ consejo.nivel = "BAJO" => consejo.texto[1] = "SEGUIMIENTO NORMAL:"
           /\ consejo.nivel \in {"ALTO", "MEDIO", "BAJO"} => Len(consejo.texto) > 1
           /\ consejo.nivel \notin {"ALTO", "MEDIO", "BAJO"} => consejo.texto = <<>>
    /\ \A i \in 1..Len(completo) :
           ~completo[i].excepcion =>
               LET r == completo[i].valor.riesgo
               IN  /\ r.nivel \in {"ALTO", "MEDIO", "BAJO"}
                   /\ r.recomendacion # <<>>
                   /\ r.nivel = "ALTO" =>
                          r.recomendacion[1] = "ACCION INMEDIATA REQUERIDA:"
                   /\ r.nivel = "MEDIO" => r.recomendacion[1] = "ATENCION RECOMENDADA:"
                   /\ r.nivel = "BAJO" => r.recomendacion[1] = "SEGUIMIENTO NORMAL:"

C18_Witness ==
    /\ consejo.nivel = "CRITICO"
    /\ consejo.texto = <<>>
    /\ Len(completo) >= 1
    /\ ~completo[1].excepcion
    /\ completo[1].valor.riesgo.nivel = "MEDIO"
    /\ completo[1].valor.riesgo.recomendacion[1] = "ATENCION RECOMENDADA:"

\* the messages of a front end whose level is one of niveles, in order
MensajesDeNivel(niveles) ==
    LET r == SelectSeq(sesion.recibidos, LAMBDA x : x.nivel \in niveles)
    IN  [i \in 1..Len(r) |-> r[i].mensaje]

\* the messages of the rows of the table alertas, in order
MensajesConAlerta == [i \in 1..Len(bd.alertas) |-> bd.alertas[i].mensaje]

\* the message test_consola announces for a level (docstring, lines 38-41)
AvisoDeNivel(nivel) ==
    IF nivel = "ALTO" THEN "ALERTA DE RIESGO ALTO. BUSCA AYUDA INMEDIATA."
    ELSE IF nivel = "MEDIO" THEN "Riesgo Medio detectado. Se sugiere buscar apoyo."
    ELSE "Riesgo Bajo. Estado emocional evaluado."

\* C19: the console loops act on the assessed level.  With a reachable
\* database the alerts chat_psicologo has stored are exactly its messages of
\* level MEDIO or ALTO, and the block test_consola printed for its i-th
\* analysed message carries the warning of that message's level.
C19_ConsoleActsOnLevel ==
    /\ (sesion.frente = "psicologo" /\ bd.disponible) =>
           MensajesConAlerta = MensajesDeNivel({"MEDIO", "ALTO"})
    /\ sesion.frente = "consola" =>
           \A i \in 1..Len(sesion.recibidos) :
               /\ consola[i + 1].tipo = "analisis"
               /\ consola[i + 1].alerta = AvisoDeNivel(sesion.recibidos[i].nivel)

\* the row of alertas that belongs to the i-th message /api/chat processed
FilaDe(i) ==
    [usuario_id |-> BuscarUsuario(bd, sesion.user_uuid),
     mensaje |-> sesion.recibidos[i].mensaje,
     clasificacion |-> sesion.recibidos[i].clasificacion,
     riesgo |-> sesion.recibidos[i].nivel,
     puntuacion |-> bd.alertas[i].puntuacion,
     valor |-> <<sesion.recibidos[i].valor>>]

\* C20: one alert row per processed message.  With a reachable database the
\* table alertas holds exactly one row for each message
\* registrar_alerta_si_corresponde has processed, in order, and the row
\* carries the message, its classification, its level and its severity
\* value, whatever the level.
C20_OneRowPerMessage ==
    (sesion.frente = "api" /\ bd.disponible) =>
        /\ Len(bd.alertas) = Len(sesion.recibidos)
        /\ \A i \in 1..Len(sesion.recibidos) :
               /\ bd.alertas[i] = FilaDe(i)
               /\ sesion.recibidos[i].nivel \in {"BAJO", "MEDIO", "ALTO"}
               /\ sesion.recibidos[i].valor \in 1..3

C20_Witness ==
    /\ sesion.frente = "api"
    /\ bd.disponible
    /\ Len(bd.alertas) = 2
    /\ bd.alertas[1].riesgo = "BAJO"
    /\ bd.alertas[1].valor = <<1>>
    /\ bd.alertas[2].riesgo = "ALTO"
    /\ bd.alertas[2].clasificacion = "EXTREMO"
    /\ bd.alertas[2].mensaje = <<"q", "u", "i", "e", "r", "o", " ", "m", "o", "r", "i", "r">>

\* the positions, in order, of the messages of level ALTO among those received
PosicionesAlto ==
    SelectSeq([i \in 1..Len(sesion.recibidos) |-> i],
              LAMBDA i : sesion.recibidos[i].nivel = "ALTO")

\* a push has been attempted for exactly the ALTO messages, the mark of the
\* last notification is set only after a send that reported success, and
\* registrar_alerta_si_corresponde has raised on no message
PushSoloAlto ==
    /\ Len(notificaciones) = Len(PosicionesAlto)
    /\ bd.notificados # {} =>
           \E k \in 1..Len(notificaciones) : notificaciones[k].envio = "enviada"
    /\ (bd.disponible /\ \E k \in 1..Len(notificaciones) :
                             notificaciones[k].envio = "enviada")
           => bd.notificados = {BuscarUsuario(bd, sesion.user_uuid)}
    /\ \A i \in 1..Len(sesion.recibidos) : ~sesion.recibidos[i].alerta_excepcion

\* C21 as stated: in /api/chat a push is attempted if and only if the level is
\* ALTO, every push is attempted with the alert row of its message already
\* stored, the mark is set only on success, and a failed or raising send never
\* makes the function raise.
C21_PushAfterRow ==
    sesion.frente = "api" =>
        /\ PushSoloAlto
        /\ \A k \in 1..Len(notificaciones) :
               notificaciones[k].filas = PosicionesAlto[k]

\* C21, amended: the same, but the row is stored before the push only with a
\* reachable database; with an unreachable one the push is still attempted and
\* no row has been stored.
C21_PushIffAlto ==
    sesion.frente = "api" =>
        /\ PushSoloAlto
        /\ \A k \in 1..Len(notificaciones) :
               notificaciones[k].filas = IF bd.disponible THEN PosicionesAlto[k] ELSE 0

C21_Witness ==
    /\ sesion.frente = "api"
    /\ bd.disponible
    /\ Len(sesion.recibidos) = 2
    /\ sesion.recibidos[1].nivel = "MEDIO"
    /\ sesion.recibidos[2].nivel = "ALTO"
    /\ Len(notificaciones) = 1
    /\ notificaciones[1].envio = "excepcion"
    /\ notificaciones[1].filas = 2
    /\ bd.notificados = {}

\* the text Ollama answered with holds nothing but asterisks and whitespace
SoloAsteriscos(t) == \A i \in 1..Len(t) : t[i] \in {"*", " ", "TAB", "NL"}

\* the fallback replies of the source (lines 166-171)
RespaldoDe(nivel, username) ==
    IF nivel = "ALTO"
    THEN username \o <<", lo que sientes es importante. Considera hablar con un profesional.">>
    ELSE IF nivel = "MEDIO" THEN <<"Estoy aqui para escucharte, ">> \o username \o <<".">>
    ELSE <<"Aqui estoy contigo, ">> \o username \o <<".">>

\* C22: generar_respuesta_con_ia always returns a non-empty reply, and when
\* the request fails or the answer holds nothing but asterisks and whitespace
\* the reply is the fallback of the level (that of BAJO for an unknown level).
C22_ReplyNeverEmpty ==
    sesion.frente = "ia" =>
        \A i \in 1..Len(sesion.recibidos) :
            /\ sesion.recibidos[i].respuesta.texto # <<>>
            /\ (ollama.fallo # "None" \/ SoloAsteriscos(ollama.response)) =>
                   /\ sesion.recibidos[i].respuesta.origen = "fallback"
                   /\ sesion.recibidos[i].respuesta.texto =
                          RespaldoDe(sesion.recibidos[i].nivel, sesion.user_uuid)

C22_Witness ==
    /\ sesion.frente = "ia"
    /\ sesion.user_uuid = <<>>
    /\ ollama = Ollama("None", <<"*", " ", "*">>)
    /\ Len(sesion.recibidos) = 1
    /\ sesion.recibidos[1].nivel = "CRITICO"
    /\ sesion.recibidos[1].respuesta.origen = "fallback"
    /\ sesion.recibidos[1].respuesta.texto = <<"Aqui estoy contigo, ", ".">>

\* the rows of the table mensajes that belong to a user, oldest first
MensajesDe(usuario_id) ==
    SelectSeq(bd.mensajes, LAMBDA f : f.usuario_id = usuario_id)

\* the last n entries of a sequence (all of them when it has at most n)
Ultimos(t, n) ==
    IF Len(t) <= n THEN t ELSE SubSeq(t, Len(t) - n + 1, Len(t))

\* C23: obtener_mensajes(usuario_id, limit) returns the most recent `limit`
\* messages of that user (all of them when the user has at most `limit`),
\* ordered by ascending date, and never a message of another user.
C23_MostRecentMessages ==
    (retorno.llamada = "obtener_mensajes" /\ bd.disponible) =>
        LET propios == Ultimos(MensajesDe(retorno.args[1]), retorno.args[2])
        IN  /\ Len(retorno.valor) = Len(propios)
            /\ \A i \in 1..Len(propios) :
                   /\ retorno.valor[i].fecha = propios[i].fecha
                   /\ retorno.valor[i].sender = propios[i].sender
                   /\ retorno.valor[i].mensaje = propios[i].mensaje

\* the token was issued by create_session, has not been deleted, and at the
\* hour `hora` has not passed its expiry
SesionVigente(token, hora) ==
    /\ token \in 1..Len(emitidos)
    /\ ~emitidos[token].borrado
    /\ hora <= emitidos[token].expiry

\* C24: session lifecycle.  With a reachable database validate_session(token)
\* returns the owning usuario_id exactly when the token was issued by
\* create_session, has not been deleted and has not passed its expiry, and -1
\* otherwise; after the validation of a token that is not valid, and after a
\* delete_session, the table holds no row of the token.
C24_SessionLifecycle ==
    /\ (retorno.llamada = "validate_session" /\ bd.disponible) =>
           /\ retorno.valor = IF SesionVigente(retorno.args[1], retorno.args[2])
                              THEN emitidos[retorno.args[1]].usuario_id
                              ELSE -1
           /\ retorno.valor = -1 =>
                  \A k \in 1..Len(bd.sessions) : bd.sessions[k].token # retorno.args[1]
    /\ \A k \in 1..Len(bd.sessions) :
           /\ bd.sessions[k].token \in 1..Len(emitidos)
           /\ ~emitidos[bd.sessions[k].token].borrado
    /\ ~bd.disponible => (emitidos = <<>> /\ bd.sessions = <<>>)

C24_Witness ==
    /\ bd.disponible
    /\ Len(emitidos) = 2
    /\ emitidos[1].borrado
    /\ retorno.llamada = "validate_session"
    /\ retorno.args[1] = 2
    /\ retorno.args[2] > emitidos[2].expiry
    /\ retorno.valor = -1
    /\ bd.sessions = <<>>

\* the owners of the stored messages, row by row
Duenos(base) == [k \in 1..Len(base.mensajes) |-> base.mensajes[k].usuario_id]

\* the messages of `base` owned by the users of the list `sources`
MensajesDeFuentes(base, sources) ==
    {k \in 1..Len(base.mensajes) :
        \E j \in 1..Len(sources) :
            /\ BuscarUsuario(base, sources[j]) # 0
            /\ base.mensajes[k].usuario_id = BuscarUsuario(base, sources[j])}

\* C25: a claim request with dry_run true, or with the field omitted, changes
\* the owner of no stored message and reports messages_to_move equal to the
\* number of messages owned by the resolved source users; a request changes an
\* owner only when its dry_run is false.
C25_DryRunMovesNothing ==
    [][(retorno'.llamada = "api_claim") =>
          /\ (retorno'.args[3] \in {"omitido", "True"}) =>
                 /\ Duenos(bd') = Duenos(bd)
                 /\ (retorno'.valor.status = 200) =>
                        retorno'.valor.cuerpo.messages_to_move
                            = Cardinality(MensajesDeFuentes(bd', retorno'.args[2]))
          /\ (Duenos(bd') # Duenos(bd)) => retorno'.args[3] = "False"]_vars

\* C26: the push of a high-risk message carries the name of the user and the
\* level, nothing of the message: two pushes for requests with the same
\* user_id and username have the same title and the same text whatever the
\* messages were, the title being the fixed one and the level ALTO.
C26_PushIndependentOfMessage ==
    (sesion.frente = "api" /\ Len(notificaciones) = Len(PosicionesAlto)) =>
        \A i, j \in 1..Len(notificaciones) :
            /\ notificaciones[i].titulo = "MindCare Alerta"
            /\ notificaciones[i].cuerpo[2] = "ALTO"
            /\ notificaciones[i].cuerpo[4] \in
                   {notificaciones[i].username, notificaciones[i].user_id}
            /\ (/\ notificaciones[i].user_id = notificaciones[j].user_id
                /\ notificaciones[i].username = notificaciones[j].username)
                   => /\ notificaciones[i].titulo = notificaciones[j].titulo
                      /\ notificaciones[i].cuerpo = notificaciones[j].cuerpo

C26_Witness ==
    /\ sesion.frente = "api"
    /\ bd.disponible
    /\ Len(notificaciones) = 2
    /\ Len(sesion.recibidos) = 2
    /\ sesion.recibidos[1].nivel = "ALTO"
    /\ sesion.recibidos[2].nivel = "ALTO"
    /\ sesion.recibidos[1].mensaje # sesion.recibidos[2].mensaje
    /\ notificaciones[1].username = notificaciones[2].username
    /\ notificaciones[1].cuerpo = notificaciones[2].cuerpo

\* the evidence the ALTO answer of detectar_nivel_riesgo reports on: that of
\* the sentiment handed in when it is EXTREMO, else that of the detector run
\* on the text
EvidenciaDelAlto ==
    IF GetClasificacion(entrada) = "EXTREMO" THEN GetContenidoExtremo(entrada)
    ELSE contiene_contenido_extremo(norm(texto))[2]

\* C27: the reasons of an ALTO answer.  When detectar_nivel_riesgo returns
\* ALTO, its reasons are one header line followed by the first three entries
\* of the extreme evidence (all of them when there are fewer), in the order of
\* the evidence, and nothing else.
C27_AltoReasons ==
    (pc = "evaluado" /\ riesgo.nivel = "ALTO") =>
        /\ Len(riesgo.motivos) = 1 + Min({3, Len(EvidenciaDelAlto)})
        /\ riesgo.motivos[1] =
               MotivoEncabezado(IF GetClasificacion(entrada) = "EXTREMO"
                                THEN "IDEACION SUICIDA DETECTADA"
                                ELSE "CONTENIDO DE ALTO RIESGO")
        /\ \A i \in 2..Len(riesgo.motivos) :
               riesgo.motivos[i] = MotivoCoincidencia(EvidenciaDelAlto[i - 1])

C27_Witness ==
    /\ pc = "evaluado"
    /\ riesgo.nivel = "ALTO"
    /\ GetClasificacion(entrada) # "EXTREMO"
    /\ Len(EvidenciaDelAlto) > 3
    /\ Len(riesgo.motivos) = 4

\* C28: no scoring after an extreme match.  When the detector matches the
\* normalised form of a non-blank text, analizar_nota returns EXTREMO having
\* consulted the detector alone: neither the external scorer nor the lexicon
\* scorer is called, whether an external scorer is there or not and whatever
\* it would have done, and no error comes out of the call.
C28_NoScoringAfterExtreme ==
    (Analizado /\ ~EsVacio(texto) /\ deteccion[1]) =>
        /\ analisis.consultas = {"detector"}
        /\ llamadas \cap {"vader", "lexico"} = {}
        /\ ~analisis.excepcion
        /\ analisis.valor = Sentimiento("EXTREMO", -1000, deteccion[2])

C28_Witness ==
    /\ pc = "analizado"
    /\ sia = "ok"
    /\ deteccion[1]
    /\ analisis.consultas = {"detector"}
    /\ llamadas = {"detector"}
    /\ analisis.valor.clasificacion = "EXTREMO"

\* the headers among the reasons of a result of analisis_completo
Encabezados(v) ==
    {v.riesgo.motivos[k].encabezado : k \in 1..Len(v.riesgo.motivos)} \ {""}

\* C29: the two steps of analisis_completo agree.  In every result the level
\* is ALTO exactly when the classification is EXTREMO, the evidence of the
\* sentiment is non-empty exactly then, and the reasons never carry the header
\* of the direct re-check: an ALTO result carries the header of the EXTREMO
\* classification.
C29_StepsAgree ==
    \A i \in 1..Len(completo) :
        ~completo[i].excepcion =>
            LET v == completo[i].valor
            IN  /\ v.riesgo.nivel = "ALTO" <=> v.sentimiento.clasificacion = "EXTREMO"
                /\ v.sentimiento.contenido_extremo # <<>>
                       <=> v.sentimiento.clasificacion = "EXTREMO"
                /\ "CONTENIDO DE ALTO RIESGO" \notin Encabezados(v)
                /\ v.riesgo.nivel = "ALTO"
                       => Encabezados(v) = {"IDEACION SUICIDA DETECTADA"}

C29_Witness ==
    /\ Len(completo) = 1
    /\ sia = "ok"
    /\ texto = <<"q", "u", "i", "e", "o", "r", " ", "m", "o", "r", "i", "r">>
    /\ ~completo[1].excepcion
    /\ completo[1].valor.sentimiento.clasificacion = "EXTREMO"
    /\ completo[1].valor.sentimiento.contenido_extremo # <<>>
    /\ completo[1].valor.riesgo.nivel = "ALTO"
    /\ Encabezados(completo[1].valor) = {"IDEACION SUICIDA DETECTADA"}

\* C30: concurrent registrations.  Whatever the interleaving of the calls, the
\* table usuarios holds no two rows with the same user_id, and every call that
\* has returned did so without raising, with the id of the row of its user_id.
C30_ConcurrentRegistration ==
    /\ \A i, j \in 1..Len(bd.usuarios) : bd.usuarios[i] = bd.usuarios[j] => i = j
    /\ \A p \in 1..Len(procesos) :
           procesos[p].pc = "fin" =>
               /\ ~procesos[p].excepcion
               /\ procesos[p].valor = BuscarUsuario(bd, procesos[p].user_uuid)

====
